---- MODULE Spec2Model ----
(***************************************************************************)
(* huelab: OKLCH ramp generation, per-stop overrides and the project       *)
(* store.  Numbers are fixed-point integers: lightness, chroma, OKLab and  *)
(* linear-light sRGB components in units of 1/Scale, hue in units of       *)
(* 1/HueUnit degree.                                                       *)
(*                                                                         *)
(* Seven specifications share the module: Spec drives applyOverride,       *)
(* clearOverride and clearAllOverrides on one generated ramp, SpecHex      *)
(* calls computeBaseStopHex on a colour and again on its result,           *)
(* SpecStore dispatches actions to projectReducer, SpecGen calls           *)
(* generateRamp, SpecAudit calls resolveTokens and auditTokenPairs,        *)
(* SpecContrast calls checkContrast on a pair of colours in both orders,   *)
(* and SpecDiff calls hueDifference.                                       *)
(*                                                                         *)
(* An expression used more than once is passed as an operator argument or  *)
(* bound over a one-element set, so that it is evaluated once.             *)
(***************************************************************************)
EXTENDS Integers, Sequences, FiniteSets, TLC

\* ------------------------------------------------------------------------
\* Fixed-point arithmetic standing for the JavaScript number type
\* ------------------------------------------------------------------------

Scale == 1000 * 1000

HueUnit == 10 * 10

FullTurn == 360 * HueUnit

Abs(x) == IF x < 0 THEN -x ELSE x

Min(a, b) == IF a < b THEN a ELSE b

Max(a, b) == IF a > b THEN a ELSE b

\* Math.round(x / d) for d > 0: halves go up
RoundDiv(x, d) == (2 * x + d) \div (2 * d)

\* a * b / Scale for non-negative a, b, rounded, without leaving 32 bits
MulU(a, b) ==
  LET a1 == a \div 1000
      a0 == a % 1000
      b1 == b \div 1000
      b0 == b % 1000
  IN  a1 * b1 + (a1 * b0 + a0 * b1 + (a0 * b0) \div 1000 + 500) \div 1000

Mul(a, b) ==
  IF (a < 0) = (b < 0) THEN MulU(Abs(a), Abs(b)) ELSE -MulU(Abs(a), Abs(b))

Cube(y) == Mul(Mul(y, y), y)

\* ------------------------------------------------------------------------
\* culori: sRGB transfer function, OKLab matrices, polar form
\* ------------------------------------------------------------------------

\* linear-light value of each 8-bit sRGB level
SrgbToLinear ==
  << 0, 304, 607, 911, 1214, 1518, 1821, 2125, 2428, 2732, 3035, 3347,
     3677, 4025, 4391, 4777, 5182, 5605, 6049, 6512, 6995, 7499, 8023, 8568,
     9134, 9721, 10330, 10960, 11612, 12286, 12983, 13702, 14444, 15209, 15996, 16807,
     17642, 18500, 19382, 20289, 21219, 22174, 23153, 24158, 25187, 26241, 27321, 28426,
     29557, 30713, 31896, 33105, 34340, 35601, 36889, 38204, 39546, 40915, 42311, 43735,
     45186, 46665, 48172, 49707, 51269, 52861, 54480, 56128, 57805, 59511, 61246, 63010,
     64803, 66626, 68478, 70360, 72272, 74214, 76185, 78187, 80220, 82283, 84376, 86500,
     88656, 90842, 93059, 95307, 97587, 99899, 102242, 104616, 107023, 109462, 111932, 114435,
     116971, 119538, 122139, 124772, 127438, 130136, 132868, 135633, 138432, 141263, 144128, 147027,
     149960, 152926, 155926, 158961, 162029, 165132, 168269, 171441, 174647, 177888, 181164, 184475,
     187821, 191202, 194618, 198069, 201556, 205079, 208637, 212231, 215861, 219526, 223228, 226966,
     230740, 234551, 238398, 242281, 246201, 250158, 254152, 258183, 262251, 266356, 270498, 274677,
     278894, 283149, 287441, 291771, 296138, 300544, 304987, 309469, 313989, 318547, 323143, 327778,
     332452, 337164, 341914, 346704, 351533, 356400, 361307, 366253, 371238, 376262, 381326, 386429,
     391572, 396755, 401978, 407240, 412543, 417885, 423268, 428690, 434154, 439657, 445201, 450786,
     456411, 462077, 467784, 473531, 479320, 485150, 491021, 496933, 502886, 508881, 514918, 520996,
     527115, 533276, 539479, 545724, 552011, 558340, 564712, 571125, 577580, 584078, 590619, 597202,
     603827, 610496, 617207, 623960, 630757, 637597, 644480, 651406, 658375, 665387, 672443, 679542,
     686685, 693872, 701102, 708376, 715694, 723055, 730461, 737910, 745404, 752942, 760525, 768151,
     775822, 783538, 791298, 799103, 806952, 814847, 822786, 830770, 838799, 846873, 854993, 863157,
     871367, 879622, 887923, 896269, 904661, 913099, 921582, 930111, 938686, 947307, 955973, 964686,
     973445, 982251, 991102, 1000000 >>

\* least linear-light value whose sRGB encoding rounds to level k (k = 1..255)
SrgbThreshold ==
  << 152, 456, 759, 1063, 1366, 1670, 1973, 2277, 2580, 2884, 3189, 3510,
     3849, 4206, 4582, 4977, 5392, 5825, 6278, 6752, 7245, 7759, 8294, 8849,
     9425, 10023, 10643, 11284, 11947, 12632, 13340, 14071, 14824, 15600, 16399, 17222,
     18069, 18939, 19833, 20751, 21694, 22661, 23653, 24670, 25711, 26778, 27871, 28989,
     30132, 31302, 32498, 33719, 34968, 36243, 37544, 38872, 40228, 41610, 43020, 44458,
     45923, 47415, 48936, 50485, 52062, 53667, 55301, 56964, 58655, 60376, 62125, 63903,
     65711, 67549, 69416, 71313, 73239, 75196, 77183, 79200, 81248, 83326, 85435, 87575,
     89745, 91947, 94180, 96444, 98740, 101067, 103426, 105816, 108239, 110694, 113180, 115699,
     118251, 120835, 123452, 126101, 128783, 131499, 134247, 137029, 139844, 142692, 145574, 148490,
     151439, 154423, 157440, 160491, 163577, 166697, 169851, 173040, 176264, 179522, 182816, 186144,
     189507, 192906, 196340, 199809, 203314, 206854, 210430, 214042, 217689, 221373, 225093, 228849,
     232641, 236470, 240335, 244237, 248176, 252151, 256163, 260213, 264299, 268423, 272583, 276782,
     281017, 285291, 289602, 293950, 298337, 302761, 307224, 311725, 316263, 320841, 325456, 330110,
     334803, 339535, 344305, 349114, 353962, 358849, 363775, 368741, 373745, 378790, 383873, 388996,
     394159, 399362, 404605, 409887, 415209, 420572, 425975, 431418, 436901, 442425, 447989, 453594,
     459239, 464926, 470653, 476421, 482230, 488081, 493972, 499905, 505879, 511895, 517952, 524051,
     530191, 536373, 542597, 548863, 555171, 561521, 567913, 574348, 580825, 587344, 593905, 600510,
     607157, 613846, 620579, 627354, 634172, 641033, 647938, 654885, 661876, 668910, 675988, 683109,
     690274, 697482, 704734, 712030, 719369, 726753, 734181, 741652, 749168, 756728, 764333, 771982,
     779675, 787413, 795195, 803022, 810894, 818811, 826773, 834779, 842831, 850928, 859070, 867257,
     875490, 883768, 892091, 900460, 908875, 917335, 925841, 934393, 942991, 951635, 960325, 969060,
     977843, 986671, 995546 >>

\* sin of the whole degrees 0..90
SinTable ==
  << 0, 17452, 34899, 52336, 69756, 87156, 104528, 121869, 139173, 156434, 173648, 190809,
     207912, 224951, 241922, 258819, 275637, 292372, 309017, 325568, 342020, 358368, 374607, 390731,
     406737, 422618, 438371, 453990, 469472, 484810, 500000, 515038, 529919, 544639, 559193, 573576,
     587785, 601815, 615661, 629320, 642788, 656059, 669131, 681998, 694658, 707107, 719340, 731354,
     743145, 754710, 766044, 777146, 788011, 798636, 809017, 819152, 829038, 838671, 848048, 857167,
     866025, 874620, 882948, 891007, 898794, 906308, 913545, 920505, 927184, 933580, 939693, 945519,
     951057, 956305, 961262, 965926, 970296, 974370, 978148, 981627, 984808, 987688, 990268, 992546,
     994522, 996195, 997564, 998630, 999391, 999848, 1000000 >>

\* sin on the first quadrant, t in 0..90*HueUnit, linear between whole degrees
SinQ(t) ==
  LET d == t \div HueUnit
      f == t % HueUnit
  IN  IF f = 0 THEN SinTable[d + 1]
      ELSE RoundDiv(SinTable[d + 1] * (HueUnit - f) + SinTable[d + 2] * f, HueUnit)

Sin(h) ==
  LET t == h % FullTurn
  IN  IF t <= 90 * HueUnit THEN SinQ(t)
      ELSE IF t <= 180 * HueUnit THEN SinQ(180 * HueUnit - t)
      ELSE IF t <= 270 * HueUnit THEN -SinQ(t - 180 * HueUnit)
      ELSE -SinQ(FullTurn - t)

Cos(h) == Sin(h + 90 * HueUnit)

RECURSIVE CbrtSearch(_, _, _)
\* invariant: Cube(lo) < x <= Cube(hi)
CbrtSearch(x, lo, hi) ==
  IF hi - lo <= 1 THEN hi
  ELSE LET mid == (lo + hi) \div 2
       IN  IF Cube(mid) < x THEN CbrtSearch(x, mid, hi)
           ELSE CbrtSearch(x, lo, mid)

Cbrt(x) == IF x < 0 THEN -CbrtSearch(-x, -1, 2 * Scale) ELSE CbrtSearch(x, -1, 2 * Scale)

RECURSIVE ISqrtSearch(_, _, _)
\* invariant: lo * lo <= n < hi * hi
ISqrtSearch(n, lo, hi) ==
  IF hi - lo <= 1 THEN lo
  ELSE LET mid == (lo + hi) \div 2
       IN  IF mid * mid <= n THEN ISqrtSearch(n, mid, hi)
           ELSE ISqrtSearch(n, lo, mid)

\* Math.sqrt(a*a + b*b) on fixed-point a, b
Hypot(a, b) ==
  LET x == Abs(a)
      y == Abs(b)
  IN  IF Max(x, y) <= 30000 THEN ISqrtSearch(x * x + y * y, 0, 46340)
      ELSE 16 * ISqrtSearch((x \div 16) * (x \div 16) + (y \div 16) * (y \div 16), 0, 46340)

RECURSIVE AtanSearch(_, _, _, _)
\* largest t in 0..90*HueUnit with sin(t) * x <= cos(t) * y
AtanSearch(x, y, lo, hi) ==
  IF hi - lo <= 1 THEN lo
  ELSE LET mid == (lo + hi) \div 2
       IN  IF Mul(SinQ(mid), x) <= Mul(SinQ(90 * HueUnit - mid), y)
           THEN AtanSearch(x, y, mid, hi)
           ELSE AtanSearch(x, y, lo, mid)

AtanQ(x, y) == AtanSearch(x, y, 0, 90 * HueUnit + 1)

\* normalizeHue(atan2(b, a) in degrees)
Atan2(b, a) ==
  IF a >= 0 /\ b >= 0 THEN AtanQ(a, b) % FullTurn
  ELSE IF a < 0 /\ b >= 0 THEN 180 * HueUnit - AtanQ(-a, b)
  ELSE IF a < 0 /\ b < 0 THEN 180 * HueUnit + AtanQ(-a, -b)
  ELSE (FullTurn - AtanQ(a, -b)) % FullTurn

\* OKLab -> OKLCH; h is absent when the chroma is zero
LchFromChroma(L, a, b, c) ==
  IF c = 0 THEN [l |-> L, c |-> 0]
  ELSE [l |-> L, c |-> c, h |-> Atan2(b, a)]

OklabToOklch(L, a, b) == LchFromChroma(L, a, b, Hypot(a, b))

\* cube-rooted LMS -> OKLCH
LmsToOklch(l_, m_, s_) ==
  OklabToOklch(Mul(210454, l_) + Mul(793618, m_) - Mul(4072, s_),
               Mul(1977998, l_) - Mul(2428592, m_) + Mul(450594, s_),
               Mul(25904, l_) + Mul(782772, m_) - Mul(808676, s_))

\* linear-light sRGB -> OKLCH
LinearRgbToOklch(R, G, B) ==
  LmsToOklch(Cbrt(Mul(412221, R) + Mul(536333, G) + Mul(51446, B)),
             Cbrt(Mul(211903, R) + Mul(680700, G) + Mul(107397, B)),
             Cbrt(Mul(88302, R) + Mul(281719, G) + Mul(629979, B)))

\* LMS -> linear-light sRGB, <<R, G, B>>
LmsToLinearRgb(l, m, s) ==
  << Mul(4076742, l) - Mul(3307712, m) + Mul(230970, s),
     -Mul(1268438, l) + Mul(2609757, m) - Mul(341319, s),
     -Mul(4196, l) - Mul(703419, m) + Mul(1707615, s) >>

\* OKLab -> linear-light sRGB
OklabToLinearRgb(L, a, b) ==
  LmsToLinearRgb(Cube(L + Mul(396338, a) + Mul(215804, b)),
                 Cube(L - Mul(105561, a) - Mul(63854, b)),
                 Cube(L - Mul(89484, a) - Mul(1291486, b)))

\* OKLCH -> linear-light sRGB, <<R, G, B>>
OklchToLinearRgb(L, c, h) == OklabToLinearRgb(L, Mul(c, Cos(h)), Mul(c, Sin(h)))

RECURSIVE EncodeSearch(_, _, _)
\* largest level k with SrgbThreshold[k] <= v (level 0 has threshold 0)
EncodeSearch(v, lo, hi) ==
  IF hi - lo <= 1 THEN lo
  ELSE IF SrgbThreshold[(lo + hi) \div 2] <= v
       THEN EncodeSearch(v, (lo + hi) \div 2, hi)
       ELSE EncodeSearch(v, lo, (lo + hi) \div 2)

\* Math.round(255 * gamma(v)) for a linear-light v in [0, 1]
Encode8(v) == EncodeSearch(v, 0, 256)

\* Math.round(255 * gamma(v)) for any linear-light v: the transfer function
\* is odd, and is continued above 1 by its tangent at 1 (slope 1.055 / 2.4)
Round255(v) ==
  IF v < 0 THEN -Encode8(Min(-v, Scale))
  ELSE IF v <= Scale THEN Encode8(v)
  ELSE 255 + RoundDiv(255 * Mul(439583, v - Scale), Scale)

\* every sRGB channel within [0, 1]
RgbInUnitRange(rgb) == \A i \in 1..3 : rgb[i] >= 0 /\ rgb[i] <= Scale

\* culori displayable()
displayable(color) == RgbInUnitRange(OklchToLinearRgb(color.l, color.c, color.h))

\* culori clampChroma: the oklch chroma range 0.4 in 2^13 steps
ChromaResolution == (4 * Scale) \div (10 * 8192)

RECURSIVE ChromaBisect(_, _, _, _)
\* the while loop of clampChroma: the last displayable midpoint
ChromaBisect(color, start, end, lastGood) ==
  IF end - start <= ChromaResolution THEN lastGood
  ELSE IF displayable([color EXCEPT !.c = start + (end - start) \div 2])
       THEN ChromaBisect(color, start + (end - start) \div 2, end,
                         start + (end - start) \div 2)
       ELSE ChromaBisect(color, start, start + (end - start) \div 2, lastGood)

\* culori clampRgb followed by the conversion back to oklch
ClippedToOklch(rgb) ==
  LinearRgbToOklch(Max(0, Min(rgb[1], Scale)),
                   Max(0, Min(rgb[2], Scale)),
                   Max(0, Min(rgb[3], Scale)))

\* culori clampChroma(color, 'oklch')
clampChroma(color) ==
  IF displayable(color) THEN color
  ELSE IF ~displayable([color EXCEPT !.c = 0])
       THEN ClippedToOklch(OklchToLinearRgb(color.l, 0, color.h))
       ELSE [color EXCEPT !.c = ChromaBisect(color, 0, color.c, 0)]

\* culori formatHex: channels clipped to [0, 1], rounded, packed as rrggbb
formatHex(rgb) ==
  Encode8(Max(0, Min(rgb[1], Scale))) * 65536
    + Encode8(Max(0, Min(rgb[2], Scale))) * 256
    + Encode8(Max(0, Min(rgb[3], Scale)))

\* ------------------------------------------------------------------------
\* oklch.ts
\* ------------------------------------------------------------------------

\* the result of a failed parse
Undefined == [undefined |-> TRUE]

\* { l: o.l, c: o.c, h: o.h ?? 0 }
HueOrZero(o) ==
  [l |-> o.l, c |-> o.c, h |-> IF "h" \in DOMAIN o THEN o.h ELSE 0]

\* culori parse + converter('oklch'): a colour string is a hex string
\* [hex |-> rrggbb], an oklch() string [l, c, h], or unparseable text
parseColor(input) ==
  IF "hex" \in DOMAIN input
  THEN HueOrZero(LinearRgbToOklch(SrgbToLinear[((input.hex \div 65536) % 256) + 1],
                                  SrgbToLinear[((input.hex \div 256) % 256) + 1],
                                  SrgbToLinear[(input.hex % 256) + 1]))
  ELSE IF "l" \in DOMAIN input
  THEN [l |-> input.l, c |-> input.c, h |-> input.h]
  ELSE Undefined

\* clampToSrgb without the call of clampChroma
clampToSrgb_noClamp(color) == HueOrZero(color)

clampToSrgb(color) == HueOrZero(clampChroma(color))


\* ------------------------------------------------------------------------
\* ramp.ts
\* ------------------------------------------------------------------------

NATURAL_SCALES ==
  << 80000, 200000, 450000, 750000, 930000, 1000000,
     960000, 850000, 700000, 500000, 300000 >>

LINEAR_SCALES ==
  << 100000, 280000, 460000, 640000, 820000, 1000000,
     910000, 820000, 730000, 550000, 360000 >>

FLAT_SCALES ==
  << 1000000, 1000000, 1000000, 1000000, 1000000, 1000000,
     1000000, 1000000, 1000000, 1000000, 1000000 >>

AUTO_HUE_SHIFT_DEGREES == 10

getChromaScales(curve) ==
  CASE curve = "natural" -> NATURAL_SCALES
    [] curve = "linear" -> LINEAR_SCALES
    [] curve = "flat" -> FLAT_SCALES

\* the Color object of an already clamped OKLCH colour and its linear rgb
ColorOf(clamped, rgb) ==
  [oklch |-> [l |-> clamped.l, c |-> clamped.c, h |-> clamped.h],
   hex |-> formatHex(rgb),
   rgb |-> [r |-> Round255(rgb[1]), g |-> Round255(rgb[2]), b |-> Round255(rgb[3])]]

ClampedToColor(clamped) ==
  ColorOf(clamped, OklchToLinearRgb(clamped.l, clamped.c, clamped.h))

oklchToColor(l, c, h) == ClampedToColor(clampToSrgb([l |-> l, c |-> c, h |-> h]))

\* baseChroma * chromaScales[index]: the table has 11 entries, and past
\* its end chromaScales[index] is undefined and the product NaN
scaledChroma(baseChroma, chromaScales, index) ==
  IF index < Len(chromaScales)
  THEN [nan |-> FALSE, c |-> Mul(baseChroma, chromaScales[index + 1])]
  ELSE [nan |-> TRUE, c |-> 0]

\* oklchToColor(l, chroma, h): a NaN chroma is not displayable, nor is any
\* midpoint clampChroma could try, and clampToSrgb stores clamped.c || 0
oklchToColorOf(l, chroma, h) == oklchToColor(l, IF chroma.nan THEN 0 ELSE chroma.c, h)

RECURSIVE ClosestFrom(_, _, _, _, _)
\* the for loop of findClosestStopId, i is the 1-based position
ClosestFrom(lightness, stops, i, closestId, minDiff) ==
  IF i > Len(stops) THEN closestId
  ELSE IF Abs(stops[i].lightness - lightness) < minDiff
       THEN ClosestFrom(lightness, stops, i + 1, stops[i].id,
                        Abs(stops[i].lightness - lightness))
       ELSE ClosestFrom(lightness, stops, i + 1, closestId, minDiff)

\* findClosestStopId with <= for <: the last of several equally close stops
findClosestStopId_lastTie(lightness, stops) ==
  stops[CHOOSE i \in 1..Len(stops) :
          /\ \A j \in 1..Len(stops) :
               Abs(stops[i].lightness - lightness) <= Abs(stops[j].lightness - lightness)
          /\ \A j \in (i + 1)..Len(stops) :
               Abs(stops[i].lightness - lightness) < Abs(stops[j].lightness - lightness)].id

findClosestStopId(lightness, stops) ==
  ClosestFrom(lightness, stops, 2, stops[1].id, Abs(stops[1].lightness - lightness))

\* chroma below 0.001 is achromatic
AchromaticChroma == Scale \div 1000

\* the offset running from 0 at the first stop to the whole shift at the last
hueOffset_fromZero(autoHueShift, index, lastIndex) ==
  IF lastIndex > 0
  THEN RoundDiv((IF autoHueShift THEN AUTO_HUE_SHIFT_DEGREES ELSE 0) * HueUnit * index,
                lastIndex)
  ELSE 0

\* autoHueShift ? AUTO_HUE_SHIFT_DEGREES : 0, then the offset of the stop
\* at position index of lastIndex + 1
hueOffset(autoHueShift, index, lastIndex) ==
  IF lastIndex > 0
  THEN -(((IF autoHueShift THEN AUTO_HUE_SHIFT_DEGREES ELSE 0) * HueUnit) \div 2)
       + RoundDiv((IF autoHueShift THEN AUTO_HUE_SHIFT_DEGREES ELSE 0) * HueUnit * index,
                  lastIndex)
  ELSE 0

\* the body of stops.map with the base colour's own lightness at every stop
rampStop_rawLightness(baseOklch, stops, chromaCurve, autoHueShift, index) ==
  [id |-> stops[index + 1].id,
   color |-> oklchToColorOf(
               baseOklch.l,
               scaledChroma(baseOklch.c, getChromaScales(chromaCurve), index),
               IF baseOklch.c < AchromaticChroma THEN 0
               ELSE baseOklch.h + hueOffset(autoHueShift, index, Len(stops) - 1)),
   overridden |-> FALSE]

\* the body of stops.map with each target moved halfway to the base colour's
\* own lightness
rampStop_blendedLightness(baseOklch, stops, chromaCurve, autoHueShift, index) ==
  [id |-> stops[index + 1].id,
   color |-> oklchToColorOf(
               (stops[index + 1].lightness + baseOklch.l) \div 2,
               scaledChroma(baseOklch.c, getChromaScales(chromaCurve), index),
               IF baseOklch.c < AchromaticChroma THEN 0
               ELSE baseOklch.h + hueOffset(autoHueShift, index, Len(stops) - 1)),
   overridden |-> FALSE]

\* the body of stops.map without isAchromatic: the hue is the base hue and
\* its offset at every chroma
rampStop_keepsHue(baseOklch, stops, chromaCurve, autoHueShift, index) ==
  [id |-> stops[index + 1].id,
   color |-> oklchToColorOf(
               stops[index + 1].lightness,
               scaledChroma(baseOklch.c, getChromaScales(chromaCurve), index),
               baseOklch.h + hueOffset(autoHueShift, index, Len(stops) - 1)),
   overridden |-> FALSE]

\* the body of stops.map in generateRamp, for the stop at position index
rampStop(baseOklch, stops, chromaCurve, autoHueShift, index) ==
  [id |-> stops[index + 1].id,
   color |-> oklchToColorOf(
               stops[index + 1].lightness,
               scaledChroma(baseOklch.c, getChromaScales(chromaCurve), index),
               IF baseOklch.c < AchromaticChroma THEN 0
               ELSE baseOklch.h + hueOffset(autoHueShift, index, Len(stops) - 1)),
   overridden |-> FALSE]

\* generateRamp after the base colour is parsed
generateFrom(name, params, stops, chromaCurve, autoHueShift, baseOklch) ==
  IF baseOklch = Undefined THEN [error |-> "Invalid base color"]
  ELSE [name |-> name,
        params |-> params,
        stops |-> [i \in 1..Len(stops) |->
                     rampStop(baseOklch, stops, chromaCurve, autoHueShift, i - 1)],
        baseStopId |-> findClosestStopId(baseOklch.l, stops)]

generateRamp(name, params, stops, chromaCurve, autoHueShift) ==
  generateFrom(name, params, stops, chromaCurve, autoHueShift, parseColor(params.baseColor))

\* position of the first stop with the given id, 0 when there is none
RECURSIVE FindIndexFrom(_, _, _)
FindIndexFrom(stops, id, i) ==
  IF i > Len(stops) THEN 0
  ELSE IF stops[i].id = id THEN i
  ELSE FindIndexFrom(stops, id, i + 1)

findIndex(stops, id) == FindIndexFrom(stops, id, 1)

Null == [null |-> TRUE]

\* computeBaseStopHex once the base stop's position is known
baseStopHexAt(baseOklch, stops, chromaCurve, stopIndex) ==
  IF stopIndex = 0 THEN Null
  ELSE [hex |-> oklchToColorOf(
                  stops[stopIndex].lightness,
                  scaledChroma(baseOklch.c, getChromaScales(chromaCurve), stopIndex - 1),
                  IF baseOklch.c < AchromaticChroma THEN 0 ELSE baseOklch.h).hex]

\* computeBaseStopHex after the base colour is parsed
baseStopHexFrom(baseOklch, stops, chromaCurve) ==
  IF baseOklch = Undefined THEN Null
  ELSE baseStopHexAt(baseOklch, stops, chromaCurve,
                     findIndex(stops, findClosestStopId(baseOklch.l, stops)))

computeBaseStopHex(baseColor, stops, chromaCurve) ==
  baseStopHexFrom(parseColor(baseColor), stops, chromaCurve)

\* ------------------------------------------------------------------------
\* The inputs of the model
\* ------------------------------------------------------------------------

\* overrides.test.ts STOPS
StopsA ==
  << [id |-> 50, lightness |-> 985000],
     [id |-> 500, lightness |-> 620000],
     [id |-> 950, lightness |-> 170000] >>

\* three of the Tailwind stops under other ids: a caller's other stop set
StopsB ==
  << [id |-> 100, lightness |-> 930000],
     [id |-> 500, lightness |-> 620000],
     [id |-> 900, lightness |-> 270000] >>

\* the shadcn preset's stops (ramp.test.ts STOPS are the same list)
TAILWIND_STOPS ==
  << [id |-> 50, lightness |-> 985000],
     [id |-> 100, lightness |-> 930000],
     [id |-> 200, lightness |-> 870000],
     [id |-> 300, lightness |-> 800000],
     [id |-> 400, lightness |-> 710000],
     [id |-> 500, lightness |-> 620000],
     [id |-> 600, lightness |-> 530000],
     [id |-> 700, lightness |-> 450000],
     [id |-> 800, lightness |-> 370000],
     [id |-> 900, lightness |-> 270000],
     [id |-> 950, lightness |-> 170000] >>

StopSets == {StopsA, StopsB}

\* #3366cc, #808080, oklch(60% 0.3 150)
BaseColors ==
  { [hex |-> 3368652],
    [hex |-> 8421504],
    [l |-> 600000, c |-> 300000, h |-> 15000] }

ChromaCurves == {"natural", "linear", "flat"}

\* stop ids a caller may target: in both stop sets, in one only, in neither
TargetIds == {500, 950, 100}

\* { l: 0.59 }, { c: 0.3, h: 120 }, { l: 0.4, h: 250 }
Partials ==
  { [l |-> 590000],
    [c |-> 300000, h |-> 12000],
    [l |-> 400000, h |-> 25000] }

\* { ...a, ...b }
Spread(a, b) ==
  [k \in DOMAIN a \cup DOMAIN b |-> IF k \in DOMAIN b THEN b[k] ELSE a[k]]

\* partials dispatched to the store: { l: 0.59, c: 0.05 }, in gamut at every
\* hue, and { c: 0.3, h: 120 }, out of gamut
StorePartials ==
  { [l |-> 590000, c |-> 50000],
    [c |-> 300000, h |-> 12000] }

\* the partials of the model and what the store's merge makes of them
AllPartials ==
  (Partials \cup StorePartials)
    \cup { Spread(a, b) : a \in Partials \cup StorePartials, b \in StorePartials }

\* generateRamp is pure, and copies the name into its result: its value
\* on the inputs of the model, computed once
GenerateInputs ==
  [params : [baseColor : BaseColors], stops : StopSets,
   chromaCurve : ChromaCurves, autoHueShift : BOOLEAN]
    \cup [params : [baseColor : BaseColors], stops : {TAILWIND_STOPS},
          chromaCurve : {"natural"}, autoHueShift : {FALSE}]

GeneratedRamps ==
  { << in, generateRamp("", in.params, in.stops, in.chromaCurve, in.autoHueShift) >> :
      in \in GenerateInputs }

\* the table entry of one input, under the caller's name
GeneratedFor(name, in) ==
  [(CHOOSE entry \in GeneratedRamps : entry[1] = in)[2] EXCEPT !.name = name]

generateRampCall(name, params, stops, chromaCurve, autoHueShift) ==
  IF [params |-> params, stops |-> stops,
      chromaCurve |-> chromaCurve, autoHueShift |-> autoHueShift] \in GenerateInputs
  THEN GeneratedFor(name, [params |-> params, stops |-> stops,
                           chromaCurve |-> chromaCurve, autoHueShift |-> autoHueShift])
  ELSE generateRamp(name, params, stops, chromaCurve, autoHueShift)

\* ------------------------------------------------------------------------
\* overrides.ts
\* ------------------------------------------------------------------------

\* a thrown Error is a record with an error field
isError(x) == "error" \in DOMAIN x

\* generateRamp's default arguments, taken by every three-argument call
DefaultChromaCurve == "natural"

DefaultAutoHueShift == FALSE

\* overrides.l ?? baseOklch.l, and the same for c and h
Merged(overrides, baseOklch, key) ==
  IF key \in DOMAIN overrides THEN overrides[key] ELSE baseOklch[key]

\* the private copy of oklchToColor in overrides.ts is pure as well: its
\* value on the baselines of the targeted stops merged with every partial
BaselineColors ==
  UNION { { entry[2].stops[i].color.oklch :
              i \in { j \in 1..Len(entry[2].stops) : entry[2].stops[j].id \in TargetIds } } :
          entry \in { e \in GeneratedRamps :
                         /\ e[1].chromaCurve = DefaultChromaCurve
                         /\ e[1].autoHueShift = DefaultAutoHueShift } }

MergedInputs ==
  { << Merged(p, o, "l"), Merged(p, o, "c"), Merged(p, o, "h") >> :
      p \in AllPartials, o \in BaselineColors }

MergedColors == { << t, oklchToColor(t[1], t[2], t[3]) >> : t \in MergedInputs }

oklchToColorCall(l, c, h) ==
  IF << l, c, h >> \in MergedInputs
  THEN (CHOOSE entry \in MergedColors : entry[1] = << l, c, h >>)[2]
  ELSE oklchToColor(l, c, h)

\* ramp.stops.map: the stop with that stop's id replaced, the rest kept
WithStop(ramp, stop) ==
  [ramp EXCEPT !.stops =
     [i \in 1..Len(ramp.stops) |->
        IF ramp.stops[i].id = stop.id THEN stop ELSE ramp.stops[i]]]

\* the overridden stop: the partial merged over the baseline, gamut-clamped
OverriddenStop(stopId, overrides, baseOklch, stored) ==
  [id |-> stopId,
   color |-> oklchToColorCall(Merged(overrides, baseOklch, "l"),
                              Merged(overrides, baseOklch, "c"),
                              Merged(overrides, baseOklch, "h")),
   overridden |-> TRUE,
   overrides |-> stored]

\* applyOverride storing the merged l, c, h in place of the caller's partial
applyOverride_storesMerged(ramp, stopId, overrides, stops) ==
  LET On(algorithmic) ==
        IF isError(algorithmic) THEN algorithmic
        ELSE IF findIndex(algorithmic.stops, stopId) = 0
        THEN [error |-> "Stop not found in ramp"]
        ELSE WithStop(ramp,
               OverriddenStop(stopId, overrides,
                 algorithmic.stops[findIndex(algorithmic.stops, stopId)].color.oklch,
                 [k \in {"l", "c", "h"} |->
                    Merged(overrides,
                      algorithmic.stops[findIndex(algorithmic.stops, stopId)].color.oklch,
                      k)]))
  IN  On(generateRampCall(ramp.name, ramp.params, stops,
                          DefaultChromaCurve, DefaultAutoHueShift))

\* applyOverride merging over the stop's current colour, not a fresh baseline
applyOverride_fromCurrent(ramp, stopId, overrides, stops) ==
  IF findIndex(ramp.stops, stopId) = 0 THEN [error |-> "Stop not found in ramp"]
  ELSE WithStop(ramp,
         OverriddenStop(stopId, overrides,
                        ramp.stops[findIndex(ramp.stops, stopId)].color.oklch,
                        overrides))

\* applyOverride putting the overridden stop into the regenerated ramp
applyOverride_intoAlgorithmic(ramp, stopId, overrides, stops) ==
  LET On(algorithmic) ==
        IF isError(algorithmic) THEN algorithmic
        ELSE IF findIndex(algorithmic.stops, stopId) = 0
        THEN [error |-> "Stop not found in ramp"]
        ELSE WithStop(algorithmic,
               OverriddenStop(stopId, overrides,
                 algorithmic.stops[findIndex(algorithmic.stops, stopId)].color.oklch,
                 overrides))
  IN  On(generateRampCall(ramp.name, ramp.params, stops,
                          DefaultChromaCurve, DefaultAutoHueShift))

\* applyOverride once the algorithmic ramp is regenerated
applyOverrideOn(ramp, stopId, overrides, algorithmic) ==
  IF isError(algorithmic) THEN algorithmic
  ELSE IF findIndex(algorithmic.stops, stopId) = 0
  THEN [error |-> "Stop not found in ramp"]
  ELSE WithStop(ramp,
         OverriddenStop(stopId, overrides,
           algorithmic.stops[findIndex(algorithmic.stops, stopId)].color.oklch,
           overrides))

applyOverride(ramp, stopId, overrides, stops) ==
  applyOverrideOn(ramp, stopId, overrides,
                  generateRampCall(ramp.name, ramp.params, stops,
                                   DefaultChromaCurve, DefaultAutoHueShift))

\* clearOverride once the algorithmic ramp is regenerated
clearOverrideOn(ramp, stopId, algorithmic) ==
  IF isError(algorithmic) THEN algorithmic
  ELSE IF findIndex(algorithmic.stops, stopId) = 0
  THEN [error |-> "Stop not found in ramp"]
  ELSE WithStop(ramp, algorithmic.stops[findIndex(algorithmic.stops, stopId)])

clearOverride(ramp, stopId, stops) ==
  clearOverrideOn(ramp, stopId,
                  generateRampCall(ramp.name, ramp.params, stops,
                                   DefaultChromaCurve, DefaultAutoHueShift))

clearAllOverrides(ramp, stops) ==
  generateRampCall(ramp.name, ramp.params, stops, DefaultChromaCurve, DefaultAutoHueShift)

\* ------------------------------------------------------------------------
\* store.tsx: projectReducer.  A ProjectState is [ramps, selectedRampIndex,
\* preset]; indices are 0-based as in the source, sequences 1-based
\* ------------------------------------------------------------------------

shadcnPreset == [stops |-> TAILWIND_STOPS]

getStops(preset) == preset.stops

initialState == [ramps |-> << >>, selectedRampIndex |-> 0, preset |-> shadcnPreset]

SET_RAMPS(state, action) ==
  [state EXCEPT
     !.ramps = action.ramps,
     !.selectedRampIndex = IF Len(action.ramps) > 0
                           THEN Min(state.selectedRampIndex, Len(action.ramps) - 1)
                           ELSE 0]

\* ADD_RAMP once generateRamp has returned or thrown
AddRampWith(state, newRamp) ==
  IF isError(newRamp) THEN newRamp
  ELSE [state EXCEPT !.ramps = Append(state.ramps, newRamp),
                     !.selectedRampIndex = Len(state.ramps)]

ADD_RAMP(state, action) ==
  AddRampWith(state, generateRampCall(action.name, action.params, getStops(state.preset),
                                      DefaultChromaCurve, DefaultAutoHueShift))

\* state.ramps.filter((_, i) => i !== index)
WithoutIndex(ramps, index) ==
  [i \in 1..(Len(ramps) - 1) |-> IF i <= index THEN ramps[i] ELSE ramps[i + 1]]

\* REMOVE_RAMP never moving the selection down with the ramps behind it
REMOVE_RAMP_keepsIndex(state, action) ==
  IF action.index < 0 \/ action.index >= Len(state.ramps) THEN state
  ELSE [state EXCEPT
          !.ramps = WithoutIndex(state.ramps, action.index),
          !.selectedRampIndex =
             IF Len(state.ramps) - 1 = 0 THEN 0
             ELSE IF state.selectedRampIndex >= Len(state.ramps) - 1
                  THEN Len(state.ramps) - 2
             ELSE state.selectedRampIndex]

REMOVE_RAMP(state, action) ==
  IF action.index < 0 \/ action.index >= Len(state.ramps) THEN state
  ELSE [state EXCEPT
          !.ramps = WithoutIndex(state.ramps, action.index),
          !.selectedRampIndex =
             IF Len(state.ramps) - 1 = 0 THEN 0
             ELSE IF state.selectedRampIndex >= Len(state.ramps) - 1
                  THEN Len(state.ramps) - 2
             ELSE IF action.index < state.selectedRampIndex
                  THEN state.selectedRampIndex - 1
             ELSE state.selectedRampIndex]

SELECT_RAMP(state, action) ==
  [state EXCEPT !.selectedRampIndex = Max(0, Min(action.index, Len(state.ramps) - 1))]

RECURSIVE Reapply(_, _, _, _)
\* the for loop of UPDATE_RAMP_PARAMS over the old ramp's stops; a throw
\* of applyOverride ends it
Reapply(rampWithOverrides, existingStops, i, stops) ==
  IF isError(rampWithOverrides) \/ i > Len(existingStops) THEN rampWithOverrides
  ELSE IF existingStops[i].overridden /\ "overrides" \in DOMAIN existingStops[i]
       THEN Reapply(applyOverride(rampWithOverrides, existingStops[i].id,
                                  existingStops[i].overrides, stops),
                    existingStops, i + 1, stops)
       ELSE Reapply(rampWithOverrides, existingStops, i + 1, stops)

\* state.ramps.map((r, i) => i === index ? ramp : r), unless ramp is a throw
WithRampAt(state, index, newRamp) ==
  IF isError(newRamp) THEN newRamp
  ELSE [state EXCEPT !.ramps[index + 1] = newRamp]

\* UPDATE_RAMP_PARAMS regenerating the ramp and replaying no override
UPDATE_RAMP_PARAMS_noReplay(state, action) ==
  IF action.index < 0 \/ action.index >= Len(state.ramps) THEN state
  ELSE WithRampAt(state, action.index,
         generateRampCall(state.ramps[action.index + 1].name, action.params,
                          getStops(state.preset),
                          DefaultChromaCurve, DefaultAutoHueShift))

UPDATE_RAMP_PARAMS(state, action) ==
  IF action.index < 0 \/ action.index >= Len(state.ramps) THEN state
  ELSE WithRampAt(state, action.index,
         Reapply(generateRampCall(state.ramps[action.index + 1].name, action.params,
                                  getStops(state.preset),
                                  DefaultChromaCurve, DefaultAutoHueShift),
                 state.ramps[action.index + 1].stops, 1, getStops(state.preset)))

\* existingStop?.overrides ?? {}
ExistingOverrides(ramp, stopId) ==
  IF findIndex(ramp.stops, stopId) # 0
       /\ "overrides" \in DOMAIN ramp.stops[findIndex(ramp.stops, stopId)]
  THEN ramp.stops[findIndex(ramp.stops, stopId)].overrides
  ELSE << >>

\* OVERRIDE_STOP storing the dispatched partial alone
OVERRIDE_STOP_replaces(state, action) ==
  IF action.rampIndex < 0 \/ action.rampIndex >= Len(state.ramps) THEN state
  ELSE WithRampAt(state, action.rampIndex,
         applyOverride(state.ramps[action.rampIndex + 1], action.stopId,
                       action.overrides,
                       getStops(state.preset)))

OVERRIDE_STOP(state, action) ==
  IF action.rampIndex < 0 \/ action.rampIndex >= Len(state.ramps) THEN state
  ELSE WithRampAt(state, action.rampIndex,
         applyOverride(state.ramps[action.rampIndex + 1], action.stopId,
                       Spread(ExistingOverrides(state.ramps[action.rampIndex + 1],
                                                action.stopId),
                              action.overrides),
                       getStops(state.preset)))

CLEAR_OVERRIDE(state, action) ==
  IF action.rampIndex < 0 \/ action.rampIndex >= Len(state.ramps) THEN state
  ELSE WithRampAt(state, action.rampIndex,
         clearOverride(state.ramps[action.rampIndex + 1], action.stopId,
                       getStops(state.preset)))

projectReducer(state, action) ==
  CASE action.type = "SET_RAMPS" -> SET_RAMPS(state, action)
    [] action.type = "ADD_RAMP" -> ADD_RAMP(state, action)
    [] action.type = "REMOVE_RAMP" -> REMOVE_RAMP(state, action)
    [] action.type = "SELECT_RAMP" -> SELECT_RAMP(state, action)
    [] action.type = "UPDATE_RAMP_PARAMS" -> UPDATE_RAMP_PARAMS(state, action)
    [] action.type = "OVERRIDE_STOP" -> OVERRIDE_STOP(state, action)
    [] action.type = "CLEAR_OVERRIDE" -> CLEAR_OVERRIDE(state, action)
    [] OTHER -> state


\* ------------------------------------------------------------------------
\* oklch.ts toColor and resolver.ts
\* ------------------------------------------------------------------------

\* linear-light channels of a parsed hex string
HexToLinearRgb(hex) ==
  << SrgbToLinear[((hex \div 65536) % 256) + 1],
     SrgbToLinear[((hex \div 256) % 256) + 1],
     SrgbToLinear[(hex % 256) + 1] >>

\* toColor: oklch, rgb and hex are each converted from the parsed colour,
\* the rgb channels rounded as they are and the hex channels clipped first
toColor(input) ==
  IF "hex" \in DOMAIN input
  THEN ColorOf(parseColor(input), HexToLinearRgb(input.hex))
  ELSE IF "l" \in DOMAIN input
  THEN ColorOf(input, OklchToLinearRgb(input.l, input.c, input.h))
  ELSE [error |-> "Invalid color", input |-> input]

\* ramps.map((r) => r.name)
RampNames(ramps) == [i \in 1..Len(ramps) |-> ramps[i].name]

\* ramp.stops.map((s) => s.id)
StopIdsOf(stops) == [i \in 1..Len(stops) |-> stops[i].id]

RECURSIVE FindRampFrom(_, _, _)
\* position of the first ramp with the given name, 0 when there is none
FindRampFrom(ramps, name, i) ==
  IF i > Len(ramps) THEN 0
  ELSE IF ramps[i].name = name THEN i
  ELSE FindRampFrom(ramps, name, i + 1)

\* resolveSource falling back to the ramp's first stop for an absent stop id
resolveStopAt_firstStop(source, found, stopIndex) ==
  [color |-> found.stops[IF stopIndex = 0 THEN 1 ELSE stopIndex].color,
   sourceLabel |-> source.ramp \o "-" \o ToString(source.stop)]

\* resolveSource once the stop's position in the found ramp is known
resolveStopAt(source, found, stopIndex) ==
  IF stopIndex = 0
  THEN [error |-> "Stop not found in ramp", stop |-> source.stop, ramp |-> source.ramp,
        available |-> StopIdsOf(found.stops)]
  ELSE [color |-> found.stops[stopIndex].color,
        sourceLabel |-> source.ramp \o "-" \o ToString(source.stop)]

\* resolveSource once the ramp's position is known
resolveRampAt(source, ramps, rampIndex) ==
  IF rampIndex = 0
  THEN [error |-> "Ramp not found", ramp |-> source.ramp, available |-> RampNames(ramps)]
  ELSE resolveStopAt(source, ramps[rampIndex],
                     findIndex(ramps[rampIndex].stops, source.stop))

\* the literal branch of resolveSource: toColor's Error passes through
resolveLiteral(color) ==
  IF isError(color) THEN color ELSE [color |-> color, sourceLabel |-> "literal"]

resolveSource(source, ramps) ==
  IF source.type = "literal" THEN resolveLiteral(toColor(source.value))
  ELSE resolveRampAt(source, ramps, FindRampFrom(ramps, source.ramp, 1))

\* the callback of tokens.map with the two modes exchanged
resolveToken_swapsModes(token, light, dark) ==
  IF isError(light) THEN light
  ELSE IF isError(dark) THEN dark
  ELSE [name |-> token.name,
        light |-> dark.color,
        dark |-> light.color,
        lightSource |-> dark.sourceLabel,
        darkSource |-> light.sourceLabel]

\* the callback of tokens.map: light is resolved first, then dark
resolveToken(token, light, dark) ==
  IF isError(light) THEN light
  ELSE IF isError(dark) THEN dark
  ELSE [name |-> token.name,
        light |-> light.color,
        dark |-> dark.color,
        lightSource |-> light.sourceLabel,
        darkSource |-> dark.sourceLabel]

RECURSIVE ResolveFrom(_, _, _, _)
\* tokens.map after the callback returned or threw for the token at i
ResolveStep(tokens, ramps, i, done, resolved) ==
  IF isError(resolved) THEN resolved
  ELSE ResolveFrom(tokens, ramps, i + 1, Append(done, resolved))

\* tokens.map from position i on: the first Error thrown ends the call
ResolveFrom(tokens, ramps, i, done) ==
  IF i > Len(tokens) THEN [returned |-> done]
  ELSE ResolveStep(tokens, ramps, i, done,
                   resolveToken(tokens[i], resolveSource(tokens[i].light, ramps),
                                resolveSource(tokens[i].dark, ramps)))

\* the outcome of resolveTokens: [returned |-> the array] or the Error
resolveTokens(tokens, ramps) == ResolveFrom(tokens, ramps, 1, << >>)

\* ------------------------------------------------------------------------
\* contrast.ts: culori wcagContrast and apca-w3 sRGBtoY, APCAcontrast
\* ------------------------------------------------------------------------

\* a / b for positive fixed-point a, b, rounded down, without leaving 32 bits
Div(a, b) ==
  (a \div b) * Scale
    + (((a % b) * 1000) \div b) * 1000
    + ((((a % b) * 1000) % b) * 1000) \div b

RECURSIVE SqrtSearch(_, _, _)
\* invariant: lo * lo <= y < hi * hi
SqrtSearch(y, lo, hi) ==
  IF hi - lo <= 1 THEN lo
  ELSE IF MulU((lo + hi) \div 2, (lo + hi) \div 2) <= y
       THEN SqrtSearch(y, (lo + hi) \div 2, hi)
       ELSE SqrtSearch(y, lo, (lo + hi) \div 2)

\* Math.sqrt on a fixed-point y in [0, 4)
Sqrt(y) == SqrtSearch(y, 0, 2 * Scale)

RECURSIVE PowFrac(_, _, _, _, _)
\* product * Math.pow(root, e2 / unit) for 0 <= e2 < 2 * unit, by the binary
\* digits of e2 / unit: root enters the product at digit 1, and its square
\* root takes its place for the next digit
PowFrac(root, e2, unit, digits, product) ==
  IF digits = 0 \/ e2 = 0 THEN product
  ELSE IF e2 >= unit
  THEN PowFrac(Sqrt(root), 2 * (e2 - unit), unit, digits - 1, MulU(product, root))
  ELSE PowFrac(Sqrt(root), 2 * e2, unit, digits - 1, product)

\* Math.pow(y, e / 1000) for a fixed-point y >= 0 and 0 < e < 1000
PowBelowOne(y, e) == PowFrac(Sqrt(y), 2 * e, 1000, 16, Scale)

\* culori wcagLuminance of linear-light channels
Luminance(rgb) == Mul(212600, rgb[1]) + Mul(715200, rgb[2]) + Mul(72200, rgb[3])

\* culori wcagContrast of two luminances
ContrastOf(L1, L2) == Div(Max(L1, L2) + Scale \div 20, Min(L1, L2) + Scale \div 20)

wcagRatio(fg, bg) ==
  ContrastOf(Luminance(OklchToLinearRgb(fg.l, fg.c, fg.h)),
             Luminance(OklchToLinearRgb(bg.l, bg.c, bg.h)))

\* toRgb255: Math.round(channel * 255) || 0, not clipped
toRgb255(color) ==
  [i \in 1..3 |-> Round255(OklchToLinearRgb(color.l, color.c, color.h)[i])]

\* apca-w3 simpleExp: Math.pow(chan / 255, 2.4), NaN for a negative channel
simpleExpOf(v) == MulU(MulU(v, v), PowBelowOne(v, 400))

\* apca-w3 sRGBtoY; [nan |-> TRUE] stands for NaN
sRGBtoY(rgb) ==
  IF \E i \in 1..3 : rgb[i] < 0 THEN [nan |-> TRUE, y |-> 0]
  ELSE [nan |-> FALSE,
        y |-> MulU(212673, simpleExpOf(RoundDiv(rgb[1] * Scale, 255)))
              + MulU(715152, simpleExpOf(RoundDiv(rgb[2] * Scale, 255)))
              + MulU(72175, simpleExpOf(RoundDiv(rgb[3] * Scale, 255)))]

\* apca-w3 soft clamp of black: Y + (blkThrs - Y)^blkClmp below blkThrs
BlackClamp(Y) ==
  IF Y > 22000 THEN Y
  ELSE Y + MulU(22000 - Y, PowBelowOne(22000 - Y, 414))

\* apca-w3 APCAcontrast after the soft clamp: polarity, scale, low clip and
\* offset, times 100
SapcOf(txtY, bgY) ==
  IF Abs(bgY - txtY) < 500 THEN 0
  ELSE IF bgY > txtY
  THEN IF Mul(PowBelowOne(bgY, 560) - PowBelowOne(txtY, 570), 1140000) < 100000 THEN 0
       ELSE (Mul(PowBelowOne(bgY, 560) - PowBelowOne(txtY, 570), 1140000) - 27000) * 100
  ELSE IF Mul(PowBelowOne(bgY, 650) - PowBelowOne(txtY, 620), 1140000) > -100000 THEN 0
       ELSE (Mul(PowBelowOne(bgY, 650) - PowBelowOne(txtY, 620), 1140000) + 27000) * 100

\* apca-w3 APCAcontrast(txtY, bgY)
APCAcontrast(txt, bg) ==
  IF txt.nan \/ bg.nan \/ Min(txt.y, bg.y) < 0 \/ Max(txt.y, bg.y) > (11 * Scale) \div 10
  THEN 0
  ELSE SapcOf(BlackClamp(txt.y), BlackClamp(bg.y))

\* apcaLc handing the background to APCAcontrast as the text
apcaLc_exchanged(textColor, bgColor) ==
  APCAcontrast(sRGBtoY(toRgb255(bgColor)), sRGBtoY(toRgb255(textColor)))

apcaLc(textColor, bgColor) ==
  APCAcontrast(sRGBtoY(toRgb255(textColor)), sRGBtoY(toRgb255(bgColor)))

\* the thresholds with the normal-text one lowered to that of large text
AA_THRESHOLDS_normalAsLarge ==
  [normalText |-> 3 * Scale,
   largeText |-> 3 * Scale,
   uiComponent |-> 3 * Scale]

\* WCAG 2.2 AA: 4.5, 3, 3
AA_THRESHOLDS ==
  [normalText |-> (45 * Scale) \div 10,
   largeText |-> 3 * Scale,
   uiComponent |-> 3 * Scale]

\* the object checkContrast returns for a ratio and an Lc
ContrastResultOf(ratio, lc) ==
  [wcagRatio |-> ratio,
   apcaLc |-> lc,
   passesAA |-> [normalText |-> ratio >= AA_THRESHOLDS.normalText,
                 largeText |-> ratio >= AA_THRESHOLDS.largeText,
                 uiComponent |-> ratio >= AA_THRESHOLDS.uiComponent]]

checkContrast(fg, bg) == ContrastResultOf(wcagRatio(fg, bg), apcaLc(fg, bg))


\* ------------------------------------------------------------------------
\* The inputs of resolveTokens and auditTokenPairs
\* ------------------------------------------------------------------------

BlueRamp == generateRampCall("blue", [baseColor |-> [hex |-> 3368652]], StopsA, "natural", FALSE)

GrayRamp == generateRampCall("gray", [baseColor |-> [hex |-> 8421504]], StopsA, "flat", FALSE)

\* the blue ramp with stop 500 overridden
BlueOverridden == applyOverride(BlueRamp, 500, [l |-> 590000], StopsA)

\* the last list holds two ramps named blue, the overridden one first
RampLists ==
  { << >>,
    << BlueRamp >>,
    << BlueRamp, GrayRamp >>,
    << BlueOverridden, GrayRamp >>,
    << GrayRamp, BlueOverridden, BlueRamp >> }

RampSource(name, stop) == [type |-> "ramp", ramp |-> name, stop |-> stop]

Literal(value) == [type |-> "literal", value |-> value]

\* #ffffff, oklch(17% 0 0), oklch(60% 0.3 150) outside sRGB, a string that
\* is no colour; ramp nonexistent is never loaded, stop 999 is in no ramp
TokenDefs ==
  { [name |-> "--primary", light |-> RampSource("blue", 950), dark |-> RampSource("blue", 500)],
    [name |-> "--primary-fg", light |-> Literal([hex |-> 16777215]),
     dark |-> Literal([hex |-> 16777215])],
    [name |-> "--background", light |-> Literal([hex |-> 16777215]),
     dark |-> Literal([l |-> 170000, c |-> 0, h |-> 0])],
    [name |-> "--accent", light |-> Literal([l |-> 600000, c |-> 300000, h |-> 15000]),
     dark |-> RampSource("gray", 500)],
    [name |-> "--ghost", light |-> RampSource("nonexistent", 500),
     dark |-> RampSource("nonexistent", 500)],
    [name |-> "--ring", light |-> RampSource("blue", 500), dark |-> RampSource("blue", 999)],
    [name |-> "--bad", light |-> Literal([text |-> "not-a-color"]),
     dark |-> RampSource("nonexistent", 500)] }

\* the lists of at most two token definitions
TokenLists ==
  {<< >>} \cup { << t >> : t \in TokenDefs } \cup { << t, u >> : t, u \in TokenDefs }

PairDefs ==
  { [name |-> "primary", foreground |-> "--primary-fg", background |-> "--primary",
     threshold |-> "normalText"],
    [name |-> "primary-inverse", foreground |-> "--primary", background |-> "--primary-fg",
     threshold |-> "normalText"],
    [name |-> "primary-large", foreground |-> "--primary-fg", background |-> "--primary",
     threshold |-> "largeText"],
    [name |-> "page", foreground |-> "--primary-fg", background |-> "--background",
     threshold |-> "uiComponent"],
    [name |-> "no-foreground", foreground |-> "--absent", background |-> "--primary",
     threshold |-> "normalText"],
    [name |-> "no-background", foreground |-> "--primary", background |-> "--absent",
     threshold |-> "largeText"] }

\* the lists of at most two pair definitions
PairLists ==
  {<< >>} \cup { << p >> : p \in PairDefs } \cup { << p, q >> : p, q \in PairDefs }

\* ------------------------------------------------------------------------
\* audit.ts
\* ------------------------------------------------------------------------

\* passesThreshold with an APCA gate of Lc 75 added to the WCAG ratio
passesThreshold_apcaGate(result, threshold) ==
  /\ result.wcagRatio >= AA_THRESHOLDS[threshold]
  /\ Abs(result.apcaLc) >= 75 * Scale

passesThreshold(result, threshold) == result.wcagRatio >= AA_THRESHOLDS[threshold]

RECURSIVE TokenMapGet(_, _, _)
\* tokenMap.get(name) after every token was set under its name: the last
\* token of that name, searched from position i down, Undefined when none
TokenMapGet(resolved, name, i) ==
  IF i = 0 THEN Undefined
  ELSE IF resolved[i].name = name THEN resolved[i]
  ELSE TokenMapGet(resolved, name, i - 1)

\* the result of the callback of pairs.map once both contrasts are known
PairResultOf(pair, lightContrast, darkContrast) ==
  [pair |-> pair,
   light |-> lightContrast,
   dark |-> darkContrast,
   lightPasses |-> passesThreshold(lightContrast, pair.threshold),
   darkPasses |-> passesThreshold(darkContrast, pair.threshold)]

\* the callback of pairs.map once both tokens are looked up
auditPair(pair, fg, bg) ==
  IF fg = Undefined
  THEN [error |-> "Foreground token not found in resolved tokens",
        token |-> pair.foreground]
  ELSE IF bg = Undefined
  THEN [error |-> "Background token not found in resolved tokens",
        token |-> pair.background]
  ELSE PairResultOf(pair,
                    checkContrast(fg.light.oklch, bg.light.oklch),
                    checkContrast(fg.dark.oklch, bg.dark.oklch))

\* the predicates of the three calls of pairResults.filter
PassesLight(r) == r.lightPasses

PassesDark(r) == r.darkPasses

FailsEither(r) == ~r.lightPasses \/ ~r.darkPasses

FailsBoth(r) == ~r.lightPasses /\ ~r.darkPasses

\* the report whose failures are only the pairs failing in both modes
ReportOf_failsInBothModes(pairResults) ==
  [pairs |-> pairResults,
   summary |-> [totalPairs |-> Len(pairResults),
                lightPasses |-> Len(SelectSeq(pairResults, PassesLight)),
                darkPasses |-> Len(SelectSeq(pairResults, PassesDark)),
                failures |-> SelectSeq(pairResults, FailsBoth)]]

\* the report and its summary, computed from the per-pair results
ReportOf(pairResults) ==
  [pairs |-> pairResults,
   summary |-> [totalPairs |-> Len(pairResults),
                lightPasses |-> Len(SelectSeq(pairResults, PassesLight)),
                darkPasses |-> Len(SelectSeq(pairResults, PassesDark)),
                failures |-> SelectSeq(pairResults, FailsEither)]]

RECURSIVE AuditFrom(_, _, _, _)
\* pairs.map after the callback returned or threw for the pair at i
AuditStep(resolved, pairs, i, done, result) ==
  IF isError(result) THEN result
  ELSE AuditFrom(resolved, pairs, i + 1, Append(done, result))

\* pairs.map from position i on, then the summary
AuditFrom(resolved, pairs, i, done) ==
  IF i > Len(pairs) THEN ReportOf(done)
  ELSE AuditStep(resolved, pairs, i, done,
                 auditPair(pairs[i],
                           TokenMapGet(resolved, pairs[i].foreground, Len(resolved)),
                           TokenMapGet(resolved, pairs[i].background, Len(resolved))))

\* the outcome of auditTokenPairs: the report or the Error
auditTokenPairs(resolved, pairs) == AuditFrom(resolved, pairs, 1, << >>)
\* ------------------------------------------------------------------------
\* State.  Seven drivers share the module, each with variables of its own:
\* a caller of the core library editing one ramp, a caller of
\* computeBaseStopHex, the webapp's project store, a caller of
\* generateRamp, a caller of resolveTokens and auditTokenPairs, a caller of
\* checkContrast, and a caller of hueDifference
\* ------------------------------------------------------------------------

VARIABLES ramp, generated, last, lastPartial, steps,
          hexArgs, hexFirst, hexSecond, hexPc,
          project, lastAction,
          genArgs, genResult, genBaseHex, genPc,
          auditArgs, auditResolved, auditReport, auditPc,
          contrastArgs, contrastResult, contrastSwapped, contrastPc,
          diffArgs, diffResult, diffPc

coreVars == << ramp, generated, last, lastPartial, steps >>

hexVars == << hexArgs, hexFirst, hexSecond, hexPc >>

storeVars == << project, lastAction >>

genVars == << genArgs, genResult, genBaseHex, genPc >>

auditVars == << auditArgs, auditResolved, auditReport, auditPc >>

contrastVars == << contrastArgs, contrastResult, contrastSwapped, contrastPc >>

diffVars == << diffArgs, diffResult, diffPc >>

vars == << coreVars, hexVars, storeVars, genVars, auditVars, contrastVars, diffVars >>

NoOp == [op |-> "none"]

CoreIdle ==
  /\ ramp = Null
  /\ generated = Null
  /\ last = NoOp
  /\ lastPartial = << >>
  /\ steps = 0

HexIdle ==
  /\ hexArgs = Null
  /\ hexFirst = Null
  /\ hexSecond = Null
  /\ hexPc = "idle"

StoreIdle ==
  /\ project = Null
  /\ lastAction = NoOp

GenIdle ==
  /\ genArgs = Null
  /\ genResult = Null
  /\ genBaseHex = Null
  /\ genPc = "idle"

AuditIdle ==
  /\ auditArgs = Null
  /\ auditResolved = Null
  /\ auditReport = Null
  /\ auditPc = "idle"

ContrastIdle ==
  /\ contrastArgs = Null
  /\ contrastResult = Null
  /\ contrastSwapped = Null
  /\ contrastPc = "idle"

DiffIdle ==
  /\ diffArgs = Null
  /\ diffResult = Null
  /\ diffPc = "idle"

\* ------------------------------------------------------------------------
\* The core library driven by a caller: one ramp is generated and then
\* edited through applyOverride, clearOverride and clearAllOverrides
\* ------------------------------------------------------------------------

MaxSteps == 2

StopIds(r) == { r.stops[i].id : i \in 1..Len(r.stops) }

HasStop(r, id) == findIndex(r.stops, id) # 0

\* ramp.stops.find(s => s.id === id)
StopOf(r, id) == r.stops[findIndex(r.stops, id)]

IsOverridden(r, id) == HasStop(r, id) /\ StopOf(r, id).overridden

Init ==
  /\ \E base \in BaseColors, curve \in ChromaCurves, shift \in BOOLEAN :
       generated = [ramp |-> generateRampCall("test", [baseColor |-> base], StopsA, curve, shift),
                    stops |-> StopsA,
                    chromaCurve |-> curve,
                    autoHueShift |-> shift]
  /\ ramp = generated.ramp
  /\ last = NoOp
  /\ lastPartial = << >>
  /\ steps = 0
  /\ HexIdle
  /\ StoreIdle
  /\ GenIdle
  /\ AuditIdle
  /\ ContrastIdle
  /\ DiffIdle

ApplyOverride(stopId, overrides, stops) ==
  /\ steps < MaxSteps
  /\ \E result \in {applyOverride(ramp, stopId, overrides, stops)} :
       /\ last' = [op |-> "applyOverride", stopId |-> stopId, overrides |-> overrides,
                   stops |-> stops, threw |-> isError(result),
                   overriddenBefore |-> IsOverridden(ramp, stopId)]
       /\ ramp' = IF isError(result) THEN ramp ELSE result
       /\ lastPartial' = IF isError(result) THEN lastPartial
                         ELSE [id \in DOMAIN lastPartial \cup {stopId} |->
                                 IF id = stopId THEN overrides ELSE lastPartial[id]]
  /\ steps' = steps + 1
  /\ UNCHANGED << generated, hexVars, storeVars, genVars, auditVars, contrastVars, diffVars >>

ClearOverride(stopId, stops) ==
  /\ steps < MaxSteps
  /\ \E result \in {clearOverride(ramp, stopId, stops)} :
       /\ last' = [op |-> "clearOverride", stopId |-> stopId,
                   stops |-> stops, threw |-> isError(result),
                   overriddenBefore |-> IsOverridden(ramp, stopId)]
       /\ ramp' = IF isError(result) THEN ramp ELSE result
  /\ steps' = steps + 1
  /\ UNCHANGED << generated, lastPartial, hexVars, storeVars, genVars, auditVars, contrastVars, diffVars >>

ClearAllOverrides(stops) ==
  /\ steps < MaxSteps
  /\ \E result \in {clearAllOverrides(ramp, stops)} :
       /\ last' = [op |-> "clearAllOverrides", stops |-> stops, threw |-> isError(result)]
       /\ ramp' = IF isError(result) THEN ramp ELSE result
  /\ steps' = steps + 1
  /\ UNCHANGED << generated, lastPartial, hexVars, storeVars, genVars, auditVars, contrastVars, diffVars >>

Next ==
  \/ \E stopId \in TargetIds, overrides \in Partials, stops \in StopSets :
       ApplyOverride(stopId, overrides, stops)
  \/ \E stopId \in TargetIds, stops \in StopSets : ClearOverride(stopId, stops)
  \/ \E stops \in StopSets : ClearAllOverrides(stops)

Spec == Init /\ [][Next]_vars

\* ------------------------------------------------------------------------
\* Properties of the core library
\* ------------------------------------------------------------------------

\* the base colour of the generated ramp, parsed
GeneratedBase == parseColor(generated.ramp.params.baseColor)

\* C2 (generateRamp): for a chromatic hex base colour (in gamut, so nothing
\* is clamped away) the stop whose id is baseStopId has the base colour's own
\* chroma and hue, whichever curve draws the ramp.
C2_BaseStopKeepsChromaAndHue ==
  ("hex" \in DOMAIN generated.ramp.params.baseColor
     /\ GeneratedBase.c >= AchromaticChroma)
  => LET baseStop == StopOf(generated.ramp, generated.ramp.baseStopId)
     IN  /\ Abs(baseStop.color.oklch.c - GeneratedBase.c) <= ChromaResolution
         /\ baseStop.color.oklch.h = GeneratedBase.h

\* C3: clearOverride(applyOverride(r, id, p), id), for r as generateRamp
\* returned it with any curve and hue-shift setting, has at stop id exactly
\* the stop r had there: same colour, overridden false, no stored overrides.
C3_ClearOverrideRestoresGenerated ==
  (/\ last.op = "clearOverride"
   /\ ~last.threw
   /\ last.overriddenBefore
   /\ last.stops = generated.stops
   /\ StopIds(ramp) = StopIds(generated.ramp))
  => StopOf(ramp, last.stopId) = StopOf(generated.ramp, last.stopId)

\* C4: clearAllOverrides(ramp) has the name, params, baseStopId and stop
\* colours the ramp had when it was first generated, every stop with
\* overridden false.
C4_ClearAllEqualsFirstGenerated ==
  (last.op = "clearAllOverrides" /\ ~last.threw /\ last.stops = generated.stops)
  => /\ ramp.name = generated.ramp.name
     /\ ramp.params = generated.ramp.params
     /\ ramp.baseStopId = generated.ramp.baseStopId
     /\ Len(ramp.stops) = Len(generated.ramp.stops)
     /\ \A i \in 1..Len(ramp.stops) :
          /\ ramp.stops[i].color = generated.ramp.stops[i].color
          /\ ~ramp.stops[i].overridden

\* C5: applyOverride(ramp, id, {l: v}) on a stop id present in the ramp
\* gives stop id lightness v and leaves every other stop, the name, the
\* params and baseStopId as they were.
C5_OverridePersistsWithFrame ==
  [][(/\ last'.op = "applyOverride"
      /\ ~last'.threw
      /\ DOMAIN last'.overrides = {"l"}
      /\ HasStop(ramp, last'.stopId))
     => /\ StopOf(ramp', last'.stopId).color.oklch.l = last'.overrides.l
        /\ StopOf(ramp', last'.stopId).overridden
        /\ Len(ramp'.stops) = Len(ramp.stops)
        /\ \A i \in 1..Len(ramp.stops) :
             ramp.stops[i].id # last'.stopId => ramp'.stops[i] = ramp.stops[i]
        /\ ramp'.name = ramp.name
        /\ ramp'.params = ramp.params
        /\ ramp'.baseStopId = ramp.baseStopId]_vars

\* a lightness-only override has been applied while another stop of the
\* ramp was overridden
C5_Witness ==
  /\ last.op = "applyOverride"
  /\ ~last.threw
  /\ DOMAIN last.overrides = {"l"}
  /\ IsOverridden(ramp, last.stopId)
  /\ \E id \in StopIds(ramp) : id # last.stopId /\ IsOverridden(ramp, id)

\* C6: applyOverride and clearOverride throw whenever the targeted stop id
\* is not a stop of the ramp; they never return a ramp then.
C6_AbsentStopThrows ==
  (last.op \in {"applyOverride", "clearOverride"} /\ last.stopId \notin StopIds(ramp))
  => last.threw

\* C7: a stop carries a stored overrides record exactly when its overridden
\* flag is true, and the record is the partial passed to the most recent
\* applyOverride on that stop.
C7_StoredPartialIsCallersPartial ==
  \A i \in 1..Len(ramp.stops) :
    LET stop == ramp.stops[i]
    IN  /\ ("overrides" \in DOMAIN stop) <=> stop.overridden
        /\ "overrides" \in DOMAIN stop
             => /\ stop.id \in DOMAIN lastPartial
                /\ stop.overrides = lastPartial[stop.id]

\* a stop overridden a second time, now with a chroma and hue partial
C7_Witness ==
  /\ last.op = "applyOverride"
  /\ ~last.threw
  /\ last.overriddenBefore
  /\ IsOverridden(ramp, last.stopId)
  /\ StopOf(ramp, last.stopId).overrides = [c |-> 300000, h |-> 12000]

\* C8: applyOverride(applyOverride(r, id, p1), id, p2) equals
\* applyOverride(r, id, p2).
C8_OverrideReplacesPrevious ==
  [][(last'.op = "applyOverride" /\ ~last'.threw)
     => \A p2 \in Partials :
          applyOverride(ramp', last'.stopId, p2, last'.stops)
            = applyOverride(ramp, last'.stopId, p2, last'.stops)]_vars

\* an override has been applied to a stop of a ramp drawn with a non-default
\* curve that already carried an override
C8_Witness ==
  /\ last.op = "applyOverride"
  /\ ~last.threw
  /\ last.overriddenBefore
  /\ HasStop(ramp, last.stopId)
  /\ generated.chromaCurve = "flat"
  /\ DOMAIN last.overrides = {"l", "h"}

\* C10: in a generated ramp, whatever the base colour, the curve and the
\* hue-shift setting, stop lightness strictly decreases as stop id increases
\* (the stop definitions being ordered by descending target lightness).
C10_LightnessDecreases ==
  \A r \in {generated.ramp}
           \cup (IF last.op = "clearAllOverrides" /\ ~last.threw THEN {ramp} ELSE {}) :
    \A i, j \in 1..Len(r.stops) :
      r.stops[i].id < r.stops[j].id
        => r.stops[i].color.oklch.l > r.stops[j].color.oklch.l

\* a hue-shifted ramp on the linear curve, and a ramp regenerated over the
\* other stop set
C10_Witness ==
  /\ generated.chromaCurve = "linear"
  /\ generated.autoHueShift
  /\ last.op = "clearAllOverrides"
  /\ last.stops = StopsB
  /\ StopIds(ramp) = {100, 500, 900}

\* ------------------------------------------------------------------------
\* computeBaseStopHex driven by a caller: it is called on a colour, and
\* then again on the hex string it returned
\* ------------------------------------------------------------------------

\* #c32615, #ff0000, #cc0000, #3366cc, #808080, #e63946 (ramp.test.ts),
\* oklch(60% 0.3 150), and a string that is no colour
HexColors ==
  { [hex |-> 12789269], [hex |-> 16711680], [hex |-> 13369344],
    [hex |-> 3368652], [hex |-> 8421504], [hex |-> 15088966],
    [l |-> 600000, c |-> 300000, h |-> 15000],
    [text |-> "not-a-color"] }

HexStopSets == {StopsA, TAILWIND_STOPS}

InitHex ==
  /\ hexArgs \in [baseColor : HexColors, stops : HexStopSets, chromaCurve : ChromaCurves]
  /\ hexFirst = Null
  /\ hexSecond = Null
  /\ hexPc = "start"
  /\ CoreIdle
  /\ StoreIdle
  /\ GenIdle
  /\ AuditIdle
  /\ ContrastIdle
  /\ DiffIdle

ComputeOnce ==
  /\ hexPc = "start"
  /\ hexFirst' = computeBaseStopHex(hexArgs.baseColor, hexArgs.stops, hexArgs.chromaCurve)
  /\ hexPc' = "once"
  /\ UNCHANGED << hexArgs, hexSecond, coreVars, storeVars, genVars, auditVars, contrastVars, diffVars >>

ComputeAgain ==
  /\ hexPc = "once"
  /\ hexFirst # Null
  /\ hexSecond' = computeBaseStopHex(hexFirst, hexArgs.stops, hexArgs.chromaCurve)
  /\ hexPc' = "twice"
  /\ UNCHANGED << hexArgs, hexFirst, coreVars, storeVars, genVars, auditVars, contrastVars, diffVars >>

NextHex == ComputeOnce \/ ComputeAgain

SpecHex == InitHex /\ [][NextHex]_vars

\* C1: computeBaseStopHex applied to its own result, with the same stops and
\* curve, returns that result again.
C1_ComputeBaseStopHexIdempotent ==
  hexPc = "twice" => hexSecond = hexFirst

\* ------------------------------------------------------------------------
\* The project store driven by dispatched actions.  A reducer that throws
\* leaves the state as it was
\* ------------------------------------------------------------------------

\* ADD_RAMP is taken while the project holds fewer ramps than this
MaxRamps == 1

\* #3366cc, #808080, and a string that is no colour
StoreColors == { [hex |-> 3368652], [hex |-> 8421504], [text |-> "not-a-color"] }

StoreIndices == -1..MaxRamps

\* a stop of the preset and an id that is no stop of it
StoreStopIds == {500, 999}

\* ramp lists an import hands to SET_RAMPS
ImportedRamps ==
  { << >>,
    << generateRampCall("primary", [baseColor |-> [hex |-> 3368652]], TAILWIND_STOPS,
                        DefaultChromaCurve, DefaultAutoHueShift) >>,
    << generateRampCall("primary", [baseColor |-> [hex |-> 3368652]], TAILWIND_STOPS,
                        DefaultChromaCurve, DefaultAutoHueShift),
       generateRampCall("primary", [baseColor |-> [hex |-> 8421504]], TAILWIND_STOPS,
                        DefaultChromaCurve, DefaultAutoHueShift) >> }

InitStore ==
  /\ project = initialState
  /\ lastAction = NoOp
  /\ CoreIdle
  /\ HexIdle
  /\ GenIdle
  /\ AuditIdle
  /\ ContrastIdle
  /\ DiffIdle

SetRamps(ramps) ==
  /\ \E action \in {[type |-> "SET_RAMPS", ramps |-> ramps]} :
       \E result \in {projectReducer(project, action)} :
         /\ project' = IF isError(result) THEN project ELSE result
         /\ lastAction' = [action |-> action, threw |-> isError(result)]
  /\ UNCHANGED << coreVars, hexVars, genVars, auditVars, contrastVars, diffVars >>

\* ADD_RAMP dispatched while the project holds fewer than limit ramps
AddRampWithin(limit, name, params) ==
  /\ Len(project.ramps) < limit
  /\ \E action \in {[type |-> "ADD_RAMP", name |-> name, params |-> params]} :
       \E result \in {projectReducer(project, action)} :
         /\ project' = IF isError(result) THEN project ELSE result
         /\ lastAction' = [action |-> action, threw |-> isError(result)]
  /\ UNCHANGED << coreVars, hexVars, genVars, auditVars, contrastVars, diffVars >>

AddRamp(name, params) == AddRampWithin(MaxRamps, name, params)

RemoveRamp(index) ==
  /\ \E action \in {[type |-> "REMOVE_RAMP", index |-> index]} :
       \E result \in {projectReducer(project, action)} :
         /\ project' = IF isError(result) THEN project ELSE result
         /\ lastAction' = [action |-> action, threw |-> isError(result)]
  /\ UNCHANGED << coreVars, hexVars, genVars, auditVars, contrastVars, diffVars >>

SelectRamp(index) ==
  /\ \E action \in {[type |-> "SELECT_RAMP", index |-> index]} :
       \E result \in {projectReducer(project, action)} :
         /\ project' = IF isError(result) THEN project ELSE result
         /\ lastAction' = [action |-> action, threw |-> isError(result)]
  /\ UNCHANGED << coreVars, hexVars, genVars, auditVars, contrastVars, diffVars >>

UpdateRampParams(index, params) ==
  /\ \E action \in {[type |-> "UPDATE_RAMP_PARAMS", index |-> index, params |-> params]} :
       \E result \in {projectReducer(project, action)} :
         /\ project' = IF isError(result) THEN project ELSE result
         /\ lastAction' = [action |-> action, threw |-> isError(result)]
  /\ UNCHANGED << coreVars, hexVars, genVars, auditVars, contrastVars, diffVars >>

OverrideStop(rampIndex, stopId, overrides) ==
  /\ \E action \in {[type |-> "OVERRIDE_STOP", rampIndex |-> rampIndex,
                      stopId |-> stopId, overrides |-> overrides]} :
       \E result \in {projectReducer(project, action)} :
         /\ project' = IF isError(result) THEN project ELSE result
         /\ lastAction' = [action |-> action, threw |-> isError(result)]
  /\ UNCHANGED << coreVars, hexVars, genVars, auditVars, contrastVars, diffVars >>

ClearStopOverride(rampIndex, stopId) ==
  /\ \E action \in {[type |-> "CLEAR_OVERRIDE", rampIndex |-> rampIndex,
                      stopId |-> stopId]} :
       \E result \in {projectReducer(project, action)} :
         /\ project' = IF isError(result) THEN project ELSE result
         /\ lastAction' = [action |-> action, threw |-> isError(result)]
  /\ UNCHANGED << coreVars, hexVars, genVars, auditVars, contrastVars, diffVars >>

NextStore ==
  \/ \E ramps \in ImportedRamps : SetRamps(ramps)
  \/ \E base \in StoreColors : AddRamp("primary", [baseColor |-> base])
  \/ \E index \in StoreIndices : RemoveRamp(index)
  \/ \E index \in StoreIndices : SelectRamp(index)
  \/ \E index \in StoreIndices, base \in StoreColors :
       UpdateRampParams(index, [baseColor |-> base])
  \/ \E rampIndex \in StoreIndices, stopId \in StoreStopIds, overrides \in StorePartials :
       OverrideStop(rampIndex, stopId, overrides)
  \/ \E rampIndex \in StoreIndices, stopId \in StoreStopIds :
       ClearStopOverride(rampIndex, stopId)

SpecStore == InitStore /\ [][NextStore]_vars

\* ------------------------------------------------------------------------
\* Properties of the project store
\* ------------------------------------------------------------------------

\* the step is an UPDATE_RAMP_PARAMS that reached a ramp and returned
UpdatedRamp ==
  /\ lastAction'.action.type = "UPDATE_RAMP_PARAMS"
  /\ ~lastAction'.threw
  /\ lastAction'.action.index >= 0
  /\ lastAction'.action.index < Len(project.ramps)

\* the stops of the new ramp that were not overridden in the old one are
\* the stops generateRamp gives for the new params
UnpinnedStopsRegenerated(before, after, fresh) ==
  /\ Len(after.stops) = Len(fresh.stops)
  /\ \A i \in 1..Len(after.stops) :
       ~IsOverridden(before, after.stops[i].id) => after.stops[i] = fresh.stops[i]

TieStops ==
  << [id |-> 100, lightness |-> 750000],
     [id |-> 500, lightness |-> 250000],
     [id |-> 900, lightness |-> 125000] >>

\* #3366cc, #808080, oklch(60% 0.3 150) outside sRGB, oklch(50% 0.1 250),
\* oklch(50% 0.0005 120) below the achromatic threshold, the dark
\* oklch(12% 0.05 250), and a string that is no colour
GenColors ==
  { [hex |-> 3368652],
    [hex |-> 8421504],
    [l |-> 600000, c |-> 300000, h |-> 15000],
    [l |-> 500000, c |-> 100000, h |-> 25000],
    [l |-> 500000, c |-> 500, h |-> 12000],
    [l |-> 120000, c |-> 50000, h |-> 25000],
    [text |-> "not-a-color"] }

\* a single stop
OneStop == << [id |-> 500, lightness |-> 620000] >>

\* the Tailwind stops and one darker stop: one stop more than the chroma
\* curves have entries
TwelveStops == TAILWIND_STOPS \o << [id |-> 975, lightness |-> 100000] >>

GenStopSets == {StopsA, StopsB, TieStops, TAILWIND_STOPS, OneStop, TwelveStops}

InitGen ==
  /\ genArgs \in [params : [baseColor : GenColors], stops : GenStopSets,
                  chromaCurve : ChromaCurves, autoHueShift : BOOLEAN]
  /\ genResult = Null
  /\ genBaseHex = Null
  /\ genPc = "start"
  /\ CoreIdle
  /\ HexIdle
  /\ StoreIdle
  /\ AuditIdle
  /\ ContrastIdle
  /\ DiffIdle

Generate ==
  /\ genPc = "start"
  /\ genResult' = generateRamp("test", genArgs.params, genArgs.stops,
                               genArgs.chromaCurve, genArgs.autoHueShift)
  /\ genPc' = "done"
  /\ UNCHANGED << genArgs, genBaseHex, coreVars, hexVars, storeVars, auditVars,
                  contrastVars, diffVars >>

\* computeBaseStopHex(baseColor, stops, chromaCurve) on the arguments
\* generateRamp was called with
ComputeBaseStopHex ==
  /\ genPc = "done"
  /\ genBaseHex' = computeBaseStopHex(genArgs.params.baseColor, genArgs.stops,
                                      genArgs.chromaCurve)
  /\ genPc' = "previewed"
  /\ UNCHANGED << genArgs, genResult, coreVars, hexVars, storeVars, auditVars,
                  contrastVars, diffVars >>

NextGen == Generate \/ ComputeBaseStopHex

SpecGen == InitGen /\ [][NextGen]_vars

\* generateRamp returned a ramp
Generated == genPc \in {"done", "previewed"} /\ ~isError(genResult)

\* C11: every generated stop has the lightness of its stop definition, so
\* stop k of the ramp of any other base colour over the same stops has the
\* same lightness.
C11_LightnessIsFixedTarget ==
  Generated =>
    \A k \in 1..Len(genArgs.stops) :
      /\ genResult.stops[k].color.oklch.l = genArgs.stops[k].lightness
      /\ \A other \in BaseColors :
           [params |-> [baseColor |-> other], stops |-> genArgs.stops,
            chromaCurve |-> genArgs.chromaCurve,
            autoHueShift |-> genArgs.autoHueShift] \in GenerateInputs =>
             generateRampCall("test", [baseColor |-> other], genArgs.stops,
                              genArgs.chromaCurve, genArgs.autoHueShift)
               .stops[k].color.oklch.l = genResult.stops[k].color.oklch.l

\* a ramp of #3366cc (lightness 0.53) over stops that another base colour
\* was generated over too
C11_Witness ==
  /\ Generated
  /\ genArgs.params.baseColor = [hex |-> 3368652]
  /\ genArgs.stops = StopsA
  /\ parseColor(genArgs.params.baseColor).l # parseColor([hex |-> 8421504]).l
  /\ genResult.stops[2].color.oklch.l = 620000

\* |stop k's target - the parsed base colour's lightness|
BaseDistance(k) ==
  Abs(genArgs.stops[k].lightness - parseColor(genArgs.params.baseColor).l)

\* C12: baseStopId is the id of a stop whose target is at least as close to
\* the parsed base colour's lightness as every other stop's, and strictly
\* closer than every stop before it in definition order.
C12_BaseStopIsFirstClosest ==
  Generated =>
    \E i \in 1..Len(genArgs.stops) :
      /\ genResult.baseStopId = genArgs.stops[i].id
      /\ \A j \in 1..Len(genArgs.stops) : BaseDistance(i) <= BaseDistance(j)
      /\ \A j \in 1..(i - 1) : BaseDistance(j) > BaseDistance(i)

\* lightness 0.5 over targets 0.75 and 0.25: both are 0.25 away, and the
\* first of them is the base stop
C12_Witness ==
  /\ Generated
  /\ genArgs.stops = TieStops
  /\ BaseDistance(1) = BaseDistance(2)
  /\ genResult.baseStopId = 100

\* baseChroma * chromaScales[index], the chroma stop k is generated from
TargetChroma(k) ==
  Mul(parseColor(genArgs.params.baseColor).c, getChromaScales(genArgs.chromaCurve)[k])

\* a channel of the stop's stored oklch lies outside [0, 1] before rounding,
\* so that only clipping could bring it into range
NeedsClipping(stop) ==
  ~RgbInUnitRange(OklchToLinearRgb(stop.color.oklch.l, stop.color.oklch.c,
                                   stop.color.oklch.h))

\* C13: every rgb channel of every generated stop is an integer in 0..255,
\* and a stop whose channels would need clipping has had its chroma reduced
\* below its target first.
C13_GamutInvariant ==
  Generated =>
    \A k \in 1..Len(genArgs.stops) :
      /\ genResult.stops[k].color.rgb.r \in 0..255
      /\ genResult.stops[k].color.rgb.g \in 0..255
      /\ genResult.stops[k].color.rgb.b \in 0..255
      /\ NeedsClipping(genResult.stops[k]) =>
           genResult.stops[k].color.oklch.c < TargetChroma(k)

\* a base colour outside sRGB whose stop had its chroma reduced, and the
\* stop's channels are in range without clipping
C13_Witness ==
  /\ Generated
  /\ ~displayable(parseColor(genArgs.params.baseColor))
  /\ \E k \in 1..Len(genArgs.stops) :
       /\ genResult.stops[k].color.oklch.c < TargetChroma(k)
       /\ genResult.stops[k].color.oklch.c > 0
       /\ ~NeedsClipping(genResult.stops[k])

\* C15: when the parsed base colour's chroma is below 0.001, every stop of
\* the generated ramp has hue 0, under every curve and hue-shift setting.
C15_AchromaticHueIsZero ==
  Generated /\ parseColor(genArgs.params.baseColor).c < AchromaticChroma =>
    \A k \in 1..Len(genArgs.stops) : genResult.stops[k].color.oklch.h = 0

\* a base colour of chroma 0.0005 and hue 120 generated with hue shift on
C15_Witness ==
  /\ Generated
  /\ genArgs.params.baseColor = [l |-> 500000, c |-> 500, h |-> 12000]
  /\ genArgs.autoHueShift
  /\ genArgs.chromaCurve = "flat"
  /\ \A k \in 1..Len(genArgs.stops) : genResult.stops[k].color.oklch.h = 0

\* the hue stop k is generated with, for a base colour of hue baseHue
\* (0 when achromatic): the stored hue, which clamping leaves alone
StoredHue(k) == genResult.stops[k].color.oklch.h

\* -S/2 + S * i / (n - 1) to the nearest hundredth of a degree, for the
\* stop at position k = i + 1 of n
IsLinearOffset(offset, k, n) ==
  2 * Abs((2 * offset + AUTO_HUE_SHIFT_DEGREES * HueUnit) * (n - 1)
            - 2 * AUTO_HUE_SHIFT_DEGREES * HueUnit * (k - 1)) <= 2 * (n - 1)

HueOffsetsFrom(base) ==
  \A k \in 1..Len(genArgs.stops) :
    IF base.c < AchromaticChroma THEN StoredHue(k) = 0
    ELSE IF ~genArgs.autoHueShift \/ Len(genArgs.stops) = 1 THEN StoredHue(k) = base.h
    ELSE /\ IsLinearOffset(StoredHue(k) - base.h, k, Len(genArgs.stops))
         /\ k = 1 => StoredHue(k) - base.h = -((AUTO_HUE_SHIFT_DEGREES * HueUnit) \div 2)
         /\ k = Len(genArgs.stops) =>
              StoredHue(k) - base.h = (AUTO_HUE_SHIFT_DEGREES * HueUnit) \div 2

\* C25: with hue shift on, a chromatic base colour and at least two stops,
\* stop i of n is generated with hue baseHue - S/2 + S * i / (n - 1) for the
\* fixed magnitude S: -S/2 at the first stop, +S/2 at the last, linear in
\* between; the offset is 0 at every stop with hue shift off, with an
\* achromatic base colour, and with a single stop.
C25_HueShiftIsLinear ==
  Generated => HueOffsetsFrom(parseColor(genArgs.params.baseColor))

\* #3366cc over the eleven Tailwind stops with hue shift on: 5 degrees below
\* the base hue at the first stop, the base hue at the middle stop, 5 above
\* at the last
C25_Witness ==
  /\ Generated
  /\ genArgs.autoHueShift
  /\ genArgs.stops = TAILWIND_STOPS
  /\ genArgs.params.baseColor = [hex |-> 3368652]
  /\ StoredHue(1) = parseColor(genArgs.params.baseColor).h - 5 * HueUnit
  /\ StoredHue(6) = parseColor(genArgs.params.baseColor).h
  /\ StoredHue(11) = parseColor(genArgs.params.baseColor).h + 5 * HueUnit

\* computeBaseStopHex returned a hex string
Previewed == genPc = "previewed" /\ genBaseHex # Null

\* C27: generateRamp and computeBaseStopHex are well defined for every
\* non-empty stop set of 1 to about 15 stops, not only 11: every stop index
\* has a curve scale factor, so every stop is generated from the chroma
\* baseChroma * scale and has integer rgb channels and a 6-digit hex, and
\* the preview is a 6-digit hex, under every curve.
C27_EveryStopHasScaleFactor ==
  /\ Generated =>
       \A k \in 1..Len(genArgs.stops) :
         /\ k \in DOMAIN getChromaScales(genArgs.chromaCurve)
         /\ genResult.stops[k].color.rgb.r \in 0..255
         /\ genResult.stops[k].color.rgb.g \in 0..255
         /\ genResult.stops[k].color.rgb.b \in 0..255
         /\ genResult.stops[k].color.hex \in 0..16777215
  /\ Previewed => genBaseHex.hex \in 0..16777215

\* the hue stop k is generated with: 0 for an achromatic base colour, else
\* the base hue and the stop's offset
TargetHue(base, k) ==
  IF base.c < AchromaticChroma THEN 0
  ELSE base.h + hueOffset(genArgs.autoHueShift, k - 1, Len(genArgs.stops) - 1)

\* stop k keeps its target lightness and hue, and its chroma is the target
\* chroma, lowered only if the target colour lies outside sRGB
ClampOnlyLowersChroma(base, k) ==
  /\ k \in DOMAIN getChromaScales(genArgs.chromaCurve)
  /\ genResult.stops[k].color.oklch.c <= TargetChroma(k)
  /\ displayable([l |-> genArgs.stops[k].lightness, c |-> TargetChroma(k),
                  h |-> TargetHue(base, k)]) =>
       genResult.stops[k].color.oklch.c = TargetChroma(k)
  /\ genResult.stops[k].color.oklch.l = genArgs.stops[k].lightness
  /\ genResult.stops[k].color.oklch.h = TargetHue(base, k)

\* C26: for every stop i of a generated ramp the stored chroma is at most
\* baseChroma * curveScale(curve)[i], and equal to it when the colour of the
\* target lightness, that chroma and the target hue is inside sRGB already;
\* clamping only lowers chroma and leaves lightness and hue at their targets.
C26_ClampOnlyLowersChroma ==
  Generated =>
    \A k \in 1..Len(genArgs.stops) :
      ClampOnlyLowersChroma(parseColor(genArgs.params.baseColor), k)

\* the stop of the generated ramp whose id is baseStopId
BaseStop == genResult.stops[findIndex(genResult.stops, genResult.baseStopId)]

\* C28: computeBaseStopHex runs the same math as ramp generation: for every
\* valid base colour, stop set and curve, and either hue-shift setting, it
\* returns the hex of the stop with id baseStopId of the ramp generateRamp
\* builds from the same base colour, stops and curve.
C28_PreviewIsBaseStopHex ==
  (Generated /\ genPc = "previewed") =>
    /\ genBaseHex # Null
    /\ genBaseHex.hex = BaseStop.color.hex

\* ------------------------------------------------------------------------
\* resolveTokens and auditTokenPairs driven by a caller: token definitions
\* are resolved against loaded ramps, and the resolved tokens are audited
\* ------------------------------------------------------------------------

InitAudit ==
  /\ auditArgs \in [tokens : TokenLists, ramps : RampLists, pairs : {<< >>}]
  /\ auditResolved = Null
  /\ auditReport = Null
  /\ auditPc = "start"
  /\ CoreIdle
  /\ HexIdle
  /\ StoreIdle
  /\ GenIdle
  /\ ContrastIdle
  /\ DiffIdle

ResolveTokens ==
  /\ auditPc = "start"
  /\ auditResolved' = resolveTokens(auditArgs.tokens, auditArgs.ramps)
  /\ auditPc' = "resolved"
  /\ UNCHANGED << auditArgs, auditReport, coreVars, hexVars, storeVars, genVars, contrastVars, diffVars >>

AuditTokenPairs(pairs) ==
  /\ auditPc = "resolved"
  /\ ~isError(auditResolved)
  /\ auditArgs' = [auditArgs EXCEPT !.pairs = pairs]
  /\ auditReport' = auditTokenPairs(auditResolved.returned, pairs)
  /\ auditPc' = "audited"
  /\ UNCHANGED << auditResolved, coreVars, hexVars, storeVars, genVars, contrastVars, diffVars >>

NextAudit ==
  \/ ResolveTokens
  \/ \E pairs \in PairLists : AuditTokenPairs(pairs)

SpecAudit == InitAudit /\ [][NextAudit]_vars

\* resolveTokens returned the array
Resolved == auditPc # "start" /\ ~isError(auditResolved)

\* rgb is the rounded sRGB conversion of the stored oklch, and hex is the
\* hex encoding of that rgb triple
RgbAndHexFromOklch(color, rgb) ==
  /\ color.rgb = [r |-> Round255(rgb[1]), g |-> Round255(rgb[2]), b |-> Round255(rgb[3])]
  /\ color.hex = color.rgb.r * 65536 + color.rgb.g * 256 + color.rgb.b

ConsistentColor(color) ==
  RgbAndHexFromOklch(color, OklchToLinearRgb(color.oklch.l, color.oklch.c, color.oklch.h))

\* C14: in every Color that toColor, generateRamp or applyOverride produce,
\* here the light and dark colours of the resolved tokens, rgb is the rounded
\* sRGB conversion of the stored oklch and hex encodes that same rgb triple.
C14_ColorFieldsConsistent ==
  Resolved =>
    \A i \in 1..Len(auditResolved.returned) :
      /\ ConsistentColor(auditResolved.returned[i].light)
      /\ ConsistentColor(auditResolved.returned[i].dark)


\* resolveTokens has been called with auditArgs.tokens and auditArgs.ramps
ResolveCalled == auditPc # "start"

\* the sources in the order resolveTokens resolves them: each token's light
\* source, then its dark source
SourceAt(k) ==
  IF k % 2 = 1 THEN auditArgs.tokens[(k + 1) \div 2].light
  ELSE auditArgs.tokens[k \div 2].dark

SourceCount == 2 * Len(auditArgs.tokens)

RampLoaded(name) == \E i \in 1..Len(auditArgs.ramps) : auditArgs.ramps[i].name = name

\* the found ramp is the first loaded ramp of that name
FoundRamp(name) ==
  auditArgs.ramps[CHOOSE i \in 1..Len(auditArgs.ramps) :
                    /\ auditArgs.ramps[i].name = name
                    /\ \A j \in 1..(i - 1) : auditArgs.ramps[j].name # name]

MissingRamp(source) == source.type = "ramp" /\ ~RampLoaded(source.ramp)

MissingStop(source) ==
  /\ source.type = "ramp"
  /\ RampLoaded(source.ramp)
  /\ \A s \in 1..Len(FoundRamp(source.ramp).stops) :
       FoundRamp(source.ramp).stops[s].id # source.stop

Dangling(source) == MissingRamp(source) \/ MissingStop(source)

Unparseable(source) == source.type = "literal" /\ "text" \in DOMAIN source.value

\* the error names the missing ramp and lists the names of the loaded ramps
RampNotFound(source) ==
  auditResolved = [error |-> "Ramp not found", ramp |-> source.ramp,
                   available |-> [i \in 1..Len(auditArgs.ramps) |-> auditArgs.ramps[i].name]]

\* the error names the missing stop and its ramp and lists the stop ids of
\* the found ramp
StopNotFound(source) ==
  auditResolved =
    [error |-> "Stop not found in ramp", stop |-> source.stop, ramp |-> source.ramp,
     available |-> [s \in 1..Len(FoundRamp(source.ramp).stops) |->
                      FoundRamp(source.ramp).stops[s].id]]

ReferenceNotFound(source) ==
  \/ MissingRamp(source) /\ RampNotFound(source)
  \/ MissingStop(source) /\ StopNotFound(source)

\* C16 as stated: whenever some light or dark ramp source names a ramp that
\* is not loaded or a stop absent from the found ramp, resolveTokens fails
\* with ReferenceNotFound, naming a missing identifier and listing the
\* alternatives.
C16_DanglingReferenceIsReferenceNotFound ==
  (ResolveCalled /\ \E k \in 1..SourceCount : Dangling(SourceAt(k))) =>
    \E k \in 1..SourceCount : ReferenceNotFound(SourceAt(k))

\* C16 amended: a dangling ramp source makes resolveTokens fail and return no
\* list, and the error is that of the first failing source in resolution
\* order: ReferenceNotFound naming the missing ramp with the loaded ramp
\* names, or the missing stop with the found ramp's stop ids, when that source
\* is a dangling ramp source, and InvalidColor when it is an unparseable
\* literal.
C16_FirstFailingSourceDecides ==
  ResolveCalled =>
    /\ (\E k \in 1..SourceCount : Dangling(SourceAt(k))) => isError(auditResolved)
    /\ \A k \in 1..SourceCount :
         (\A j \in 1..(k - 1) : ~Dangling(SourceAt(j)) /\ ~Unparseable(SourceAt(j))) =>
           /\ Dangling(SourceAt(k)) => ReferenceNotFound(SourceAt(k))
           /\ Unparseable(SourceAt(k)) =>
                isError(auditResolved) /\ auditResolved.error = "Invalid color"

\* Scenario D: ramp blue is loaded, stop 999 is not among its stops 50, 500, 950
C16_Witness ==
  /\ ResolveCalled
  /\ isError(auditResolved)
  /\ auditResolved.error = "Stop not found in ramp"
  /\ auditResolved.ramp = "blue"
  /\ auditResolved.stop = 999
  /\ auditResolved.available = << 50, 500, 950 >>

\* auditTokenPairs has been called with auditResolved.returned and auditArgs.pairs
Audited == auditPc = "audited"

ResolvedNames == { auditResolved.returned[i].name : i \in 1..Len(auditResolved.returned) }

AbsentToken(pair) ==
  pair.foreground \notin ResolvedNames \/ pair.background \notin ResolvedNames

\* the Error carries the missing token name and the valid token names
NamesTokenAndAlternatives(pair) ==
  /\ isError(auditReport)
  /\ auditReport.token \in {pair.foreground, pair.background} \ ResolvedNames
  /\ "available" \in DOMAIN auditReport
  /\ auditReport.available = ResolvedNames

\* C17: whenever a pair's foreground or background name is absent from the
\* resolved tokens, auditTokenPairs fails with ReferenceNotFound and returns
\* no report, and the error carries both the missing token name and the set
\* of valid token names.
C17_AbsentTokenErrorListsValidNames ==
  Audited =>
    \A i \in 1..Len(auditArgs.pairs) :
      AbsentToken(auditArgs.pairs[i]) =>
        \E j \in 1..Len(auditArgs.pairs) : NamesTokenAndAlternatives(auditArgs.pairs[j])

\* what one source yields: the current colour of the named stop of the found
\* ramp with label ramp-stop, or the parsed literal with label literal
SourceYields(source, color, label) ==
  IF source.type = "ramp"
  THEN /\ RampLoaded(source.ramp)
       /\ \E s \in 1..Len(FoundRamp(source.ramp).stops) :
            /\ FoundRamp(source.ramp).stops[s].id = source.stop
            /\ color = FoundRamp(source.ramp).stops[s].color
       /\ label = source.ramp \o "-" \o ToString(source.stop)
  ELSE /\ color = toColor(source.value)
       /\ color.oklch = parseColor(source.value)
       /\ label = "literal"

\* C18: resolveTokens returns one ResolvedToken per token definition, in
\* input order and under the same name; light and dark are each resolved
\* from their own source: a ramp source gives the current colour of the named
\* stop of the named ramp, overrides included, labelled ramp-stop, and a
\* literal source gives the parsed colour labelled literal.
C18_OneResolvedTokenPerDefinition ==
  Resolved =>
    /\ Len(auditResolved.returned) = Len(auditArgs.tokens)
    /\ \A i \in 1..Len(auditArgs.tokens) :
         /\ auditResolved.returned[i].name = auditArgs.tokens[i].name
         /\ SourceYields(auditArgs.tokens[i].light, auditResolved.returned[i].light,
                         auditResolved.returned[i].lightSource)
         /\ SourceYields(auditArgs.tokens[i].dark, auditResolved.returned[i].dark,
                         auditResolved.returned[i].darkSource)

\* --primary resolved against the blue ramp whose stop 500 is overridden to
\* lightness 0.59, followed by a token of literals
C18_Witness ==
  /\ Resolved
  /\ Len(auditResolved.returned) = 2
  /\ auditResolved.returned[1].name = "--primary"
  /\ auditResolved.returned[1].lightSource = "blue-950"
  /\ auditResolved.returned[1].darkSource = "blue-500"
  /\ auditResolved.returned[1].dark.oklch.l = 590000
  /\ auditResolved.returned[2].lightSource = "literal"

\* auditTokenPairs returned a report
Reported == Audited /\ ~isError(auditReport)

\* the positions of the per-pair results that fail in at least one mode
FailingPositions ==
  { i \in 1..Len(auditReport.pairs) :
      ~auditReport.pairs[i].lightPasses \/ ~auditReport.pairs[i].darkPasses }

\* the k-th failing position in input order
FailingPosition(k) ==
  CHOOSE i \in FailingPositions : Cardinality({ j \in FailingPositions : j <= i }) = k

\* C19: the summary agrees with the per-pair results: totalPairs is the
\* number of input pairs, lightPasses and darkPasses count the pairs passing
\* in light and in dark mode, and failures holds exactly the pairs failing in
\* at least one mode, each once and in input order.
C19_SummaryAgreesWithPairs ==
  Reported =>
    /\ Len(auditReport.pairs) = Len(auditArgs.pairs)
    /\ \A i \in 1..Len(auditArgs.pairs) : auditReport.pairs[i].pair = auditArgs.pairs[i]
    /\ auditReport.summary.totalPairs = Len(auditArgs.pairs)
    /\ auditReport.summary.lightPasses =
         Cardinality({ i \in 1..Len(auditReport.pairs) : auditReport.pairs[i].lightPasses })
    /\ auditReport.summary.darkPasses =
         Cardinality({ i \in 1..Len(auditReport.pairs) : auditReport.pairs[i].darkPasses })
    /\ Len(auditReport.summary.failures) = Cardinality(FailingPositions)
    /\ \A k \in 1..Len(auditReport.summary.failures) :
         auditReport.summary.failures[k] = auditReport.pairs[FailingPosition(k)]

\* two pairs audited: the first passes in both modes, the second passes in
\* light mode only and is the one failure
C19_Witness ==
  /\ Reported
  /\ auditReport.summary.totalPairs = 2
  /\ auditReport.summary.lightPasses = 2
  /\ auditReport.summary.darkPasses = 1
  /\ Len(auditReport.summary.failures) = 1
  /\ auditReport.summary.failures[1] = auditReport.pairs[2]
  /\ auditReport.pairs[2].lightPasses
  /\ ~auditReport.pairs[2].darkPasses

\* the evaluations of a report: one per audited pair and mode
Evaluations ==
  UNION { { [class |-> auditReport.pairs[i].pair.threshold,
             result |-> auditReport.pairs[i].light,
             passes |-> auditReport.pairs[i].lightPasses],
            [class |-> auditReport.pairs[i].pair.threshold,
             result |-> auditReport.pairs[i].dark,
             passes |-> auditReport.pairs[i].darkPasses] } :
          i \in 1..Len(auditReport.pairs) }

\* the verdict that the WCAG ratio and the threshold class alone give:
\* 4.5 for normal text, 3 for large text and for UI components
RatioVerdict(ratio, class) ==
  IF class = "normalText" THEN 10 * ratio >= 45 * Scale ELSE ratio >= 3 * Scale

\* C20: APCA never takes part in pass/fail: every verdict of an audited pair
\* and mode (lightPasses, darkPasses, passesAA, membership in failures) is
\* the one its WCAG ratio and the pair's threshold class give, so two
\* evaluations with the same ratio and class get the same verdict whatever
\* their apcaLc.
C20_VerdictFromWcagRatioOnly ==
  Reported =>
    /\ \A e \in Evaluations :
         /\ e.passes = RatioVerdict(e.result.wcagRatio, e.class)
         /\ \A class \in {"normalText", "largeText", "uiComponent"} :
              e.result.passesAA[class] = RatioVerdict(e.result.wcagRatio, class)
    /\ \A e1, e2 \in Evaluations :
         (e1.result.wcagRatio = e2.result.wcagRatio /\ e1.class = e2.class) =>
           /\ e1.passes = e2.passes
           /\ e1.result.passesAA = e2.result.passesAA
    /\ \A i \in 1..Len(auditReport.pairs) :
         (\E k \in 1..Len(auditReport.summary.failures) :
            auditReport.summary.failures[k] = auditReport.pairs[i])
         <=> \/ ~RatioVerdict(auditReport.pairs[i].light.wcagRatio,
                              auditReport.pairs[i].pair.threshold)
             \/ ~RatioVerdict(auditReport.pairs[i].dark.wcagRatio,
                              auditReport.pairs[i].pair.threshold)

\* a pair and its inverse audited together: the same WCAG ratio and class,
\* different APCA Lc, the same verdict
C20_Witness ==
  /\ Reported
  /\ Len(auditReport.pairs) = 2
  /\ auditReport.pairs[1].pair.threshold = auditReport.pairs[2].pair.threshold
  /\ auditReport.pairs[1].light.wcagRatio = auditReport.pairs[2].light.wcagRatio
  /\ auditReport.pairs[1].light.apcaLc # auditReport.pairs[2].light.apcaLc
  /\ (auditReport.pairs[1].light.apcaLc < 0) # (auditReport.pairs[2].light.apcaLc < 0)
  /\ auditReport.pairs[1].lightPasses = auditReport.pairs[2].lightPasses

\* ------------------------------------------------------------------------
\* A caller of checkContrast: one pair of colours, checked as given and
\* with foreground and background exchanged
\* ------------------------------------------------------------------------

\* black, white, greys of lightness 0.5, 0.55 and 0.62, the colours of the
\* contrast tests, and two OKLCH colours outside sRGB
ContrastColors ==
  { [l |-> 0, c |-> 0, h |-> 0],
    [l |-> Scale, c |-> 0, h |-> 0],
    [l |-> 500000, c |-> 0, h |-> 0],
    [l |-> 550000, c |-> 0, h |-> 0],
    [l |-> 620000, c |-> 0, h |-> 0],
    [l |-> 500000, c |-> 100000, h |-> 20000],
    [l |-> 300000, c |-> 100000, h |-> 20000],
    [l |-> 800000, c |-> 50000, h |-> 20000],
    [l |-> 600000, c |-> 100000, h |-> 3000],
    [l |-> 700000, c |-> 50000, h |-> 3000],
    [l |-> 100000, c |-> 400000, h |-> 0],
    [l |-> 600000, c |-> 300000, h |-> 15000] }

InitContrast ==
  /\ contrastArgs \in [fg : ContrastColors, bg : ContrastColors]
  /\ contrastResult = Null
  /\ contrastSwapped = Null
  /\ contrastPc = "start"
  /\ CoreIdle
  /\ HexIdle
  /\ StoreIdle
  /\ GenIdle
  /\ AuditIdle
  /\ DiffIdle

\* checkContrast(fg, bg)
CheckContrast ==
  /\ contrastPc = "start"
  /\ contrastResult' = checkContrast(contrastArgs.fg, contrastArgs.bg)
  /\ contrastPc' = "checked"
  /\ UNCHANGED << contrastArgs, contrastSwapped, coreVars, hexVars, storeVars, genVars,
                  auditVars, diffVars >>

\* checkContrast(bg, fg)
CheckSwapped ==
  /\ contrastPc = "checked"
  /\ contrastSwapped' = checkContrast(contrastArgs.bg, contrastArgs.fg)
  /\ contrastPc' = "done"
  /\ UNCHANGED << contrastArgs, contrastResult, coreVars, hexVars, storeVars, genVars,
                  auditVars, diffVars >>

NextContrast == CheckContrast \/ CheckSwapped

SpecContrast == InitContrast /\ [][NextContrast]_vars

\* checkContrast(fg, bg) has returned
Checked == contrastPc \in {"checked", "done"}

\* C21: checkContrast compares the WCAG ratio with fixed thresholds,
\* inclusively: passesAA.normalText holds iff wcagRatio >= 4.5, and
\* passesAA.largeText and passesAA.uiComponent each hold iff wcagRatio >= 3,
\* so normalText passing implies the other two.
C21_FixedInclusiveThresholds ==
  Checked =>
    /\ contrastResult.passesAA.normalText <=> 2 * contrastResult.wcagRatio >= 9 * Scale
    /\ contrastResult.passesAA.largeText <=> contrastResult.wcagRatio >= 3 * Scale
    /\ contrastResult.passesAA.uiComponent <=> contrastResult.wcagRatio >= 3 * Scale
    /\ contrastResult.passesAA.normalText =>
         contrastResult.passesAA.largeText /\ contrastResult.passesAA.uiComponent

\* a ratio between 3 and 4.5: large text and UI components pass, normal
\* text does not
C21_Witness ==
  /\ Checked
  /\ contrastResult.wcagRatio >= 3 * Scale
  /\ 2 * contrastResult.wcagRatio < 9 * Scale
  /\ ~contrastResult.passesAA.normalText
  /\ contrastResult.passesAA.largeText
  /\ contrastResult.passesAA.uiComponent

\* both orders have been checked
CheckedBoth == contrastPc = "done"

\* culori's relative luminance of a colour
LuminanceOf(color) == Luminance(OklchToLinearRgb(color.l, color.c, color.h))

ApcaY(color) == sRGBtoY(toRgb255(color))

\* a colour with a channel below 0 has no APCA luminance
NoApcaY(color) == ApcaY(color).nan

C23_WcagRatioSymmetricAndBounded ==
  CheckedBoth =>
    /\ contrastResult.wcagRatio = contrastSwapped.wcagRatio
    /\ contrastResult.wcagRatio >= Scale
    /\ contrastResult.wcagRatio <= 21 * Scale
    /\ contrastArgs.fg = contrastArgs.bg => contrastResult.wcagRatio = Scale

\* ------------------------------------------------------------------------
\* A caller of hueDifference
\* ------------------------------------------------------------------------

\* hueDifference without the reduction modulo 360
hueDifference_noWrap(h1, h2) ==
  IF Abs(h1 - h2) > FullTurn \div 2 THEN FullTurn - Abs(h1 - h2) ELSE Abs(h1 - h2)

\* Math.abs(h1 - h2) % 360, then the shorter way round
hueDifference(h1, h2) ==
  IF Abs(h1 - h2) % FullTurn > FullTurn \div 2
  THEN FullTurn - (Abs(h1 - h2) % FullTurn)
  ELSE Abs(h1 - h2) % FullTurn

\* hues of the tests (10, 30, 60, 350), the half turn and its neighbours,
\* negative hues and hues of a full turn and more
DiffHues ==
  { h * HueUnit : h \in {-725, -400, -360, -190, -180, -10, 0, 10, 30, 60, 170, 180, 190,
                         350, 360, 370, 540, 720, 725} }
    \cup {-1, 1, FullTurn \div 2 + 1, FullTurn - 1}

InitDiff ==
  /\ diffArgs \in [h1 : DiffHues, h2 : DiffHues]
  /\ diffResult = Null
  /\ diffPc = "start"
  /\ CoreIdle
  /\ HexIdle
  /\ StoreIdle
  /\ GenIdle
  /\ AuditIdle
  /\ ContrastIdle

\* hueDifference(h1, h2)
HueDifference ==
  /\ diffPc = "start"
  /\ diffResult' = hueDifference(diffArgs.h1, diffArgs.h2)
  /\ diffPc' = "done"
  /\ UNCHANGED << diffArgs, coreVars, hexVars, storeVars, genVars, auditVars, contrastVars >>

NextDiff == HueDifference

SpecDiff == InitDiff /\ [][NextDiff]_vars

\* the distance between two hues by the shorter way round the circle: the
\* least |h1 - h2 + 360 k| over whole turns k
CircularDistance(h1, h2) ==
  CHOOSE d \in { Abs(h1 - h2 + k * FullTurn) : k \in -5..5 } :
    \A k \in -5..5 : d <= Abs(h1 - h2 + k * FullTurn)

\* C24: hueDifference is the circular shortest-path distance: for all hues,
\* negative ones and ones above 360 included, the result lies in [0, 180],
\* is the same with the arguments exchanged, is 0 for equal hues, and does
\* not change when 360 is added to either argument.
C24_HueDifferenceIsCircularDistance ==
  diffPc = "done" =>
    /\ diffResult >= 0
    /\ diffResult <= 180 * HueUnit
    /\ diffResult = CircularDistance(diffArgs.h1, diffArgs.h2)
    /\ diffResult = hueDifference(diffArgs.h2, diffArgs.h1)
    /\ diffArgs.h1 = diffArgs.h2 => diffResult = 0
    /\ diffResult = hueDifference(diffArgs.h1 + FullTurn, diffArgs.h2)
    /\ diffResult = hueDifference(diffArgs.h1, diffArgs.h2 + FullTurn)

\* the wraparound of the tests, 350 and 10 are 20 apart, and hues more than
\* a full turn apart
C24_Witness ==
  /\ diffPc = "done"
  /\ \/ diffArgs = [h1 |-> 350 * HueUnit, h2 |-> 10 * HueUnit] /\ diffResult = 20 * HueUnit
     \/ diffArgs = [h1 |-> -400 * HueUnit, h2 |-> 725 * HueUnit] /\ diffResult = 45 * HueUnit
\* ------------------------------------------------------------------------
\* The store pinning one component of a stop after another
\* ------------------------------------------------------------------------

\* { c: 0.05 }, { c: 0.3 } and { l: 0.59 }: one component each
PinPartials ==
  { [c |-> 50000],
    [c |-> 300000],
    [l |-> 590000] }

NextPin ==
  \/ \E ramps \in ImportedRamps : SetRamps(ramps)
  \/ \E rampIndex \in StoreIndices, stopId \in StoreStopIds, overrides \in PinPartials :
       OverrideStop(rampIndex, stopId, overrides)
  \/ \E rampIndex \in StoreIndices, stopId \in StoreStopIds :
       ClearStopOverride(rampIndex, stopId)

SpecPin == InitStore /\ [][NextPin]_vars

\* the step is an OVERRIDE_STOP of lightness alone that reached a stop
\* storing a chroma override
PinsLightnessOverChroma ==
  /\ lastAction'.action.type = "OVERRIDE_STOP"
  /\ ~lastAction'.threw
  /\ DOMAIN lastAction'.action.overrides = {"l"}
  /\ lastAction'.action.rampIndex >= 0
  /\ lastAction'.action.rampIndex < Len(project.ramps)
  /\ "c" \in DOMAIN ExistingOverrides(project.ramps[lastAction'.action.rampIndex + 1],
                                      lastAction'.action.stopId)

\* the stop stores the chroma it stored before and the dispatched lightness
StoresBoth(before, stop, overrides) ==
  /\ stop.overridden
  /\ "overrides" \in DOMAIN stop
  /\ {"l", "c"} \subseteq DOMAIN stop.overrides
  /\ stop.overrides.c = before.c
  /\ stop.overrides.l = overrides.l

\* C29 as stated: after OVERRIDE_STOP with { c: x } and then OVERRIDE_STOP
\* with { l: y } on the same stop of the same ramp, the stop stores both
\* c = x and l = y, and its colour has lightness y and chroma x.
C29_ColourPinnedToBoth ==
  [][PinsLightnessOverChroma =>
       \A before \in {ExistingOverrides(project.ramps[lastAction'.action.rampIndex + 1],
                                        lastAction'.action.stopId)},
          stop \in {StopOf(project'.ramps[lastAction'.action.rampIndex + 1],
                           lastAction'.action.stopId)} :
         /\ StoresBoth(before, stop, lastAction'.action.overrides)
         /\ stop.color.oklch.l = lastAction'.action.overrides.l
         /\ stop.color.oklch.c = before.c]_vars

\* C29 amended: after OVERRIDE_STOP with { c: x } and then OVERRIDE_STOP
\* with { l: y } on the same stop of the same ramp, the stop stores both
\* c = x and l = y; its colour has lightness y, and its chroma is x reduced
\* into the sRGB gamut: never above x, and x itself when the colour of
\* lightness y and chroma x is displayable.
C29_StoredBothChromaGamutClamped ==
  [][PinsLightnessOverChroma =>
       \A before \in {ExistingOverrides(project.ramps[lastAction'.action.rampIndex + 1],
                                        lastAction'.action.stopId)},
          stop \in {StopOf(project'.ramps[lastAction'.action.rampIndex + 1],
                           lastAction'.action.stopId)} :
         /\ StoresBoth(before, stop, lastAction'.action.overrides)
         /\ stop.color.oklch.l = lastAction'.action.overrides.l
         /\ stop.color.oklch.c <= before.c
         /\ displayable([stop.color.oklch EXCEPT !.c = before.c])
              => stop.color.oklch.c = before.c]_vars

\* lightness alone has just been pinned on a stop that stored chroma 0.05,
\* and the stop's colour has both
C29_Witness ==
  /\ lastAction # NoOp
  /\ lastAction.action.type = "OVERRIDE_STOP"
  /\ ~lastAction.threw
  /\ DOMAIN lastAction.action.overrides = {"l"}
  /\ lastAction.action.rampIndex >= 0
  /\ lastAction.action.rampIndex < Len(project.ramps)
  /\ \E r \in {project.ramps[lastAction.action.rampIndex + 1]} :
       /\ IsOverridden(r, lastAction.action.stopId)
       /\ StopOf(r, lastAction.action.stopId).overrides = [l |-> 590000, c |-> 50000]
       /\ StopOf(r, lastAction.action.stopId).color.oklch.l = 590000
       /\ StopOf(r, lastAction.action.stopId).color.oklch.c = 50000
\* ------------------------------------------------------------------------
\* The store's selection under SET_RAMPS, ADD_RAMP, REMOVE_RAMP, SELECT_RAMP
\* ------------------------------------------------------------------------

\* ADD_RAMP is taken here while the project holds fewer ramps than this
MaxListed == 3

\* indices below, inside and above every list of the model
SelectIndices == -1..MaxListed

\* an empty import and one of three different ramps
ListedRamps ==
  { << >>,
    << generateRampCall("primary", [baseColor |-> [hex |-> 3368652]], TAILWIND_STOPS,
                        DefaultChromaCurve, DefaultAutoHueShift),
       generateRampCall("neutral", [baseColor |-> [hex |-> 8421504]], TAILWIND_STOPS,
                        DefaultChromaCurve, DefaultAutoHueShift),
       generateRampCall("accent", [baseColor |-> [l |-> 600000, c |-> 300000, h |-> 15000]],
                        TAILWIND_STOPS, DefaultChromaCurve, DefaultAutoHueShift) >> }

NextSelect ==
  \/ \E ramps \in ListedRamps : SetRamps(ramps)
  \/ \E base \in StoreColors : AddRampWithin(MaxListed, "added", [baseColor |-> base])
  \/ \E index \in SelectIndices : RemoveRamp(index)
  \/ \E index \in SelectIndices : SelectRamp(index)

SpecSelect == InitStore /\ [][NextSelect]_vars

\* selectedRampIndex is 0 without ramps and an index of the list otherwise
SelectionInRange(state) ==
  IF Len(state.ramps) = 0 THEN state.selectedRampIndex = 0
  ELSE state.selectedRampIndex >= 0 /\ state.selectedRampIndex < Len(state.ramps)

\* the step is an ADD_RAMP that returned
AddedRamp ==
  /\ lastAction'.action.type = "ADD_RAMP"
  /\ ~lastAction'.threw

\* the step is a REMOVE_RAMP of a ramp of the list that is not the selected one
RemovedOtherRamp ==
  /\ lastAction'.action.type = "REMOVE_RAMP"
  /\ lastAction'.action.index >= 0
  /\ lastAction'.action.index < Len(project.ramps)
  /\ lastAction'.action.index # project.selectedRampIndex

\* C30: under SET_RAMPS, ADD_RAMP, REMOVE_RAMP and SELECT_RAMP with indices
\* in and out of range, selectedRampIndex is 0 when there are no ramps and
\* an index of the list otherwise; ADD_RAMP appends a ramp and selects it;
\* REMOVE_RAMP of a ramp other than the selected one leaves the selected
\* ramp in the list, at its new position, selected.
C30_SelectionStaysValid ==
  /\ [](SelectionInRange(project))
  /\ [][AddedRamp =>
          /\ Len(project'.ramps) = Len(project.ramps) + 1
          /\ SubSeq(project'.ramps, 1, Len(project.ramps)) = project.ramps
          /\ project'.selectedRampIndex = Len(project'.ramps) - 1
          /\ project'.ramps[project'.selectedRampIndex + 1].name
               = lastAction'.action.name]_vars
  /\ [][RemovedOtherRamp =>
          /\ Len(project'.ramps) = Len(project.ramps) - 1
          /\ project'.selectedRampIndex =
               IF lastAction'.action.index < project.selectedRampIndex
               THEN project.selectedRampIndex - 1
               ELSE project.selectedRampIndex
          /\ project'.ramps[project'.selectedRampIndex + 1]
               = project.ramps[project.selectedRampIndex + 1]]_vars

\* the first of three different ramps has just been removed while the third
\* was selected: the third is now second, and selected
C30_Witness ==
  /\ lastAction # NoOp
  /\ lastAction.action.type = "REMOVE_RAMP"
  /\ lastAction.action.index = 0
  /\ Len(project.ramps) = 2
  /\ project.ramps[1].name = "neutral"
  /\ project.ramps[2].name = "accent"
  /\ project.selectedRampIndex = 1
====
